---- MODULE Spec2Model ----
(***************************************************************************)
(* A model of the ALMA-EDM-Oracle repository: the name-indexed N-way tree  *)
(* (EDM/EDMTree.py), the owner-scope walk layered on its depth-first       *)
(* traversal (EDM/EDM.py) and the brace tokenizer (EDM/EDM.py).            *)
(***************************************************************************)
EXTENDS Integers, Sequences, FiniteSets, TLC

\* ---------------------------------------------------------------- bounds
\* Largest number of insert calls made on one tree.
MaxNodes == 4
\* Largest number of adopt calls made on one tree.
MaxAdopts == 1
\* Largest number of nodes in a tree walked by the owner-scope walk.
MaxDocs == 3
\* Longest generated tokenizer input, in characters.
MaxLen == 4
\* Longest token list handed to parsePairs.
MaxPairsLen == 5
\* Forums whose docshare is read, rows the query results hold in all, and
\* documents marked by the owner rows of the document sheets.
MaxForums == 2
MaxRows == 3
MaxMarks == 2

\* ---------------------------------------------------------------- values
\* Python's None and a present value x, as sequences of length 0 and 1.
None == <<>>
Some(x) == <<x>>
IsNone(o) == o = <<>>
Val(o) == o[1]

\* Python values handed to insert as name or parent: a str, None, or an int
\* (the key an earlier insert returned).
PyNone == [t |-> "none", v |-> ""]
PyStr(s) == [t |-> "str", v |-> s]
PyInt(k) == [t |-> "int", v |-> k]
\* str(k) of a natural number: its decimal digits.
Digit(d) == CASE d = 0 -> "0" [] d = 1 -> "1" [] d = 2 -> "2" [] d = 3 -> "3"
              [] d = 4 -> "4" [] d = 5 -> "5" [] d = 6 -> "6" [] d = 7 -> "7"
              [] d = 8 -> "8" [] d = 9 -> "9"
RECURSIVE Decimal(_)
Decimal(k) == IF k < 10 THEN Digit(k) ELSE Decimal(k \div 10) \o Digit(k % 10)
\* str(x) as insert applies it to its name and parent arguments.
Str(x) == IF x.t = "none" THEN "None"
          ELSE IF x.t = "int" THEN Decimal(x.v)
          ELSE x.v

\* Names the callers use for nodes.
Names == {"a", "b"}
\* Values the callers pass as parent: a name, or nothing (None).
ParentArgs == {PyStr(n) : n \in Names} \cup {PyNone}
\* Names of the nodes of a tree walked by the owner-scope walk, and the values
\* passed as their parent.
DocNames == {"a", "b", "c"}
DocParentArgs == {PyStr(n) : n \in DocNames} \cup {PyNone}
\* Owner values an operator writes into the OWNER column.
Owners == {"X", "Y"}
\* The owner value that makes writeMigrationXLSX stop its walk.
StopOwner == "STOP!"

\* Python's recursion limit, scaled to sit above the depth of any acyclic
\* traversal of MaxNodes nodes (the synthetic root included).
RecursionLimit == MaxNodes + 2

\* The reference of the dict object that is insert's default attrs argument.
DefaultAttrs == 0

\* EDM.MySQLConfig with the local MySQL server switched off.
NoMySQL == [enable |-> 0, local_tables |-> {}]

VARIABLES
    lastId,     \* EDMTree.lastId
    store,      \* EDMTree.store: key -> node
    nameIndex,  \* EDMTree.nameIndex: name -> key
    attrs,      \* the attrs dict objects, by reference (0 is the default argument)
    exc,        \* the exception that ended the last call, "" when none
    dirty,      \* an insert or adopt happened since the last index()
    adopts,     \* number of adopt calls made
    call,       \* the last adopt or traversal call: its arguments
    events,     \* the yields and done-hook calls of the last traversal call
    pos,        \* owner walk: the event of `events` handled next
    docOwner,   \* owner walk: docOwner / forumOwner
    treeTop,    \* owner walk: treeTop
    scopeKey,   \* owner walk: key of the node whose mark opened the open scope
    log,        \* owner walk: the nodes handled by the loop body, with the owner in force
    input,      \* tokenizer: inputStr, a sequence of characters
    tpc,        \* tokenizer: "idle", "scan", "done" or "raised"
    tpos,       \* tokenizer: the scanner's position in inputStr
    result,     \* tokenizer: NestedParser.result, the items of the root ParserNode
    current,    \* tokenizer: NestedParser.current, a path below the root or None
    output,     \* tokenizer: the list splitOnBracketsOrSpace returns
    values,     \* parsePairs: the caller's list
    vals,       \* parsePairs: vals, the copy the loop consumes
    attrsOut,   \* parsePairs and the decoders: the dict built and returned
    dpc,        \* parsePairs and the decoders: "idle", "loop", "done" or "raised"
    lastDocID,  \* __loadDocshare: lastDocID
    phase,      \* pipeline: what runs on the docshare held by the tree variables
    forumNo,    \* pipeline: the number of forums whose docshare was loaded
    forumOwner, \* pipeline: forum['attrs']['OWNER'] of the forum of that docshare
    sheet,      \* writeMigrationXLSX: the rows appended to the sheet
    rows,       \* __loadDocshare: the rows its for loop has processed
    forums,     \* pipeline: the forums read before, each with OWNER and docshare
    MySQLConfig,\* EDM.MySQLConfig: 'enable' and 'local_tables'
    queryResult,\* loadAllForums: the rows the forum query returns from the database
    forumRows,  \* loadAllForums: its local `rows`, None while unbound
    rowNo,      \* loadAllForums: the rows its for loop has processed
    lpc         \* loadAllForums: "idle", "query", "loop", "done" or "raised"

vars == <<lastId, store, nameIndex, attrs, exc, dirty, adopts, call, events,
          pos, docOwner, treeTop, scopeKey, log,
          input, tpc, tpos, result, current, output,
          values, vals, attrsOut, dpc,
          lastDocID, phase, forumNo, forumOwner, sheet, rows, forums,
          MySQLConfig, queryResult, forumRows, rowNo, lpc>>
treeVars == <<lastId, store, nameIndex, attrs, dirty, adopts>>
travVars == <<call, events>>
walkVars == <<pos, docOwner, treeTop, scopeKey, log>>
tokVars == <<input, tpc, tpos, result, current, output>>
decVars == <<values, vals, attrsOut, dpc>>
migVars == <<lastDocID, phase, forumNo, forumOwner, sheet, rows, forums>>
loadVars == <<MySQLConfig, queryResult, forumRows, rowNo, lpc>>

\* ---------------------------------------------------------------- EDMTree
\* The synthetic root node created by reset().
RootNode == [name |-> "000_EDMTree_Root", key |-> 0, attrs |-> DefaultAttrs,
             parent |-> None, pname |-> "000_EDMTree_XXX", kids |-> <<>>,
             depth |-> Some(-1)]

\* The node insert() builds: no 'parent' and no 'depth' entry yet.
NewNode(name, key, ref, parent) ==
    [name |-> Str(name), key |-> key, attrs |-> ref, parent |-> None,
     pname |-> Str(parent), kids |-> <<>>, depth |-> None]

\* BindName that keeps the first binding of a name.
BindNameKeepFirst(ni, name, key) ==
    [n \in DOMAIN ni \cup {name} |-> IF n \in DOMAIN ni THEN ni[n] ELSE key]

\* nameIndex[name] = key: the name is bound, or rebound, to the new key.
BindName(ni, name, key) ==
    [n \in DOMAIN ni \cup {name} |-> IF n = name THEN key ELSE ni[n]]

\* dict.get(key, 0) on the name index.
IndexGet(ni, name) == IF name \in DOMAIN ni THEN ni[name] ELSE 0

\* find(name): the key of the node found, 0 for None.
Find(ni, name) == IndexGet(ni, name)

\* insertionOrder(): the keys of the nodes yielded.
InsertionOrder(st) == [i \in 1..(Cardinality(DOMAIN st) - 1) |-> i]

Keys(st) == DOMAIN st \ {0}

\* Events of a traversal: a node yielded, a done-hook call, or the
\* RecursionError that ends a traversal which never returns.
Yield(k) == [e |-> "yield", key |-> k, name |-> ""]
Done(k, name) == [e |-> "done", key |-> k, name |-> name]
RecursionError == [e |-> "RecursionError", key |-> 0, name |-> ""]
Failed(evs) == Len(evs) > 0 /\ evs[Len(evs)].e = "RecursionError"

\* FrameOrder with the hook called before the kids are traversed.
FrameOrderHookFirst(pre, below, post, hook) ==
    IF Failed(below) THEN pre \o hook \o below
    ELSE pre \o hook \o below \o post

\* The order of one depthFirst frame: the pre-order yield, the kids' frames,
\* the post-order yield, the hook call; an exception below ends the frame.
FrameOrder(pre, below, post, hook) ==
    IF Failed(below) THEN pre \o below
    ELSE pre \o below \o post \o hook

\* depthFirst(key, postOrder, doneHook): the sequence of yields and hook calls
\* in the order they happen; level counts the nested generator frames.
RECURSIVE depthFirst(_, _, _, _, _), dfKids(_, _, _, _, _, _)
depthFirst(st, key, postOrder, doneHook, level) ==
    IF level > RecursionLimit THEN <<RecursionError>>
    ELSE
      LET pre == IF ~postOrder /\ key # 0 THEN <<Yield(key)>> ELSE <<>>
          below == dfKids(st, st[key].kids, 1, postOrder, doneHook, level + 1)
          post == IF postOrder /\ key # 0 THEN <<Yield(key)>> ELSE <<>>
          hook == IF doneHook THEN <<Done(key, st[key].name)>> ELSE <<>>
      IN FrameOrder(pre, below, post, hook)

\* depthFirst's loop over the kids list, from its i-th entry on.
dfKids(st, kids, i, postOrder, doneHook, level) ==
    IF i > Len(kids) THEN <<>>
    ELSE LET sub == depthFirst(st, kids[i], postOrder, doneHook, level)
         IN IF Failed(sub) THEN sub
            ELSE sub \o dfKids(st, kids, i + 1, postOrder, doneHook, level)

\* The grandchildren of a node, in the order breadthFirst's nested loops
\* reach them: the kids of kids[i], kids[i+1], ...
RECURSIVE GrandKids(_, _, _)
GrandKids(st, kids, i) ==
    IF i > Len(kids) THEN <<>>
    ELSE st[kids[i]].kids \o GrandKids(st, kids, i + 1)

\* breadthFirst(key): the sequence of yields.
RECURSIVE breadthFirst(_, _, _), bfGrandKids(_, _, _, _)
breadthFirst(st, key, level) ==
    IF level > RecursionLimit THEN <<RecursionError>>
    ELSE
      LET first == IF key # 0 THEN <<Yield(key)>> ELSE <<>>
          kids == st[key].kids
          children == [i \in 1..Len(kids) |-> Yield(kids[i])]
      IN first \o children \o bfGrandKids(st, GrandKids(st, kids, 1), 1, level + 1)

\* breadthFirst's recursion into the grandchildren, from the i-th on.
bfGrandKids(st, gc, i, level) ==
    IF i > Len(gc) THEN <<>>
    ELSE LET sub == breadthFirst(st, gc[i], level)
         IN IF Failed(sub) THEN sub
            ELSE sub \o bfGrandKids(st, gc, i + 1, level)

\* The keys yielded by a traversal, in order.
Yields(evs) == LET ys == SelectSeq(evs, LAMBDA ev : ev.e = "yield")
               IN [i \in 1..Len(ys) |-> ys[i].key]

\* index(), first loop: every node's kids list is emptied.
ClearKids(st) == [k \in DOMAIN st |-> [st[k] EXCEPT !.kids = <<>>]]

\* LinkParent with an unbound parent name left unlinked instead of falling
\* back to the synthetic root.
LinkParentBoundOnly(st, ni, key) ==
    IF st[key].pname \in DOMAIN ni
    THEN LET parent == ni[st[key].pname]
             st1 == [st EXCEPT ![key].parent = Some(parent)]
         IN [st1 EXCEPT ![parent].kids = Append(@, key)]
    ELSE st

\* index(), second loop, one iteration: node key gets its parent key from the
\* name index (0 when the name is unbound) and joins that parent's kids.
LinkParent(st, ni, key) ==
    LET parent == IndexGet(ni, st[key].pname)
        st1 == [st EXCEPT ![key].parent = Some(parent)]
    IN [st1 EXCEPT ![parent].kids = Append(@, key)]

\* index(), second loop over the store in key order.
RECURSIVE LinkAll(_, _, _)
LinkAll(st, ni, key) ==
    IF key \notin DOMAIN st THEN st
    ELSE LinkAll(LinkParent(st, ni, key), ni, key + 1)

\* index(), third loop, one iteration: depth = parent's depth + 1.
SetDepth(st, key) ==
    LET parent == IF IsNone(st[key].parent) THEN 0 ELSE Val(st[key].parent)
        pdepth == IF IsNone(st[parent].depth) THEN 0 ELSE Val(st[parent].depth)
    IN [st EXCEPT ![key].depth = Some(pdepth + 1)]

\* index(), third loop over the nodes depthFirst() yields.
RECURSIVE SetDepths(_, _, _)
SetDepths(st, ys, i) ==
    IF i > Len(ys) THEN st
    ELSE SetDepths(SetDepth(st, ys[i]), ys, i + 1)

\* index(): the store after the three loops.
IndexStore(st, ni) ==
    LET linked == LinkAll(ClearKids(st), ni, 1)
    IN SetDepths(linked, Yields(depthFirst(linked, 0, FALSE, FALSE, 0)), 1)

\* index(): its depthFirst() from the synthetic root does not return.
IndexRaises(st, ni) ==
    Failed(depthFirst(LinkAll(ClearKids(st), ni, 1), 0, FALSE, FALSE, 0))

InSeq(x, s) == \E i \in 1..Len(s) : s[i] = x

\* adopt(): the condition under which line 66 runs, where
\* `oldParent['kids'].remove[key]` subscripts a method and raises TypeError.
AdoptRaises(st, ni, key) ==
    LET oldParent == Find(ni, st[key].pname)
    IN oldParent # 0 /\ InSeq(key, st[oldParent].kids)

\* No traversal has been called since the tree last changed.
NoCall == [op |-> "", key |-> 0, postOrder |-> FALSE, doneHook |-> FALSE,
           name |-> "", indexed |-> FALSE]
\* The record of a call of op on the node of key `key`.
Call(op, key, postOrder, doneHook, name) ==
    [op |-> op, key |-> key, postOrder |-> postOrder, doneHook |-> doneHook,
     name |-> name, indexed |-> ~dirty]

Init ==
    /\ lastId = 0
    /\ store = [k \in {0} |-> RootNode]
    /\ nameIndex = [n \in {} |-> 0]
    /\ attrs = [r \in {DefaultAttrs} |-> [OWNER |-> None]]
    /\ exc = ""
    /\ dirty = FALSE
    /\ adopts = 0
    /\ call = NoCall
    /\ events = <<>>
    /\ pos = 0
    /\ docOwner = None
    /\ treeTop = None
    /\ scopeKey = None
    /\ log = <<>>
    /\ input = <<>>
    /\ tpc = "idle"
    /\ tpos = 1
    /\ result = <<>>
    /\ current = Some(<<>>)
    /\ output = <<>>
    /\ values = <<>>
    /\ vals = <<>>
    /\ attrsOut = <<>>
    /\ dpc = "idle"
    /\ lastDocID = None
    /\ phase = "idle"
    /\ forumNo = 0
    /\ forumOwner = None
    /\ sheet = <<>>
    /\ rows = <<>>
    /\ forums = <<>>
    /\ MySQLConfig = NoMySQL
    /\ queryResult = <<>>
    /\ forumRows = None
    /\ rowNo = 0
    /\ lpc = "idle"

\* insert(name, attrs, parent); ownAttrs = FALSE leaves attrs to its default.
Insert(name, ownAttrs, parent, limit) ==
    /\ exc = ""
    /\ lastId < limit
    /\ LET key == lastId + 1
           ref == IF ownAttrs THEN key ELSE DefaultAttrs
       IN /\ lastId' = key
          /\ store' = [k \in DOMAIN store \cup {key} |->
                         IF k = key THEN NewNode(name, key, ref, parent) ELSE store[k]]
          /\ nameIndex' = BindName(nameIndex, Str(name), key)
          /\ attrs' = IF ownAttrs
                      THEN [r \in DOMAIN attrs \cup {key} |->
                              IF r = key THEN [OWNER |-> None] ELSE attrs[r]]
                      ELSE attrs
    /\ dirty' = TRUE
    /\ call' = NoCall
    /\ events' = <<>>
    /\ UNCHANGED <<loadVars, exc, adopts, walkVars, tokVars, decVars, migVars>>

\* adopt(child, newParentName) with child the node of key `key`.
Adopt(key, newParentName) ==
    /\ exc = ""
    /\ adopts < MaxAdopts
    /\ key \in Keys(store)
    /\ adopts' = adopts + 1
    /\ IF AdoptRaises(store, nameIndex, key)
       THEN /\ exc' = "TypeError"
            /\ UNCHANGED <<store, dirty>>
       ELSE /\ store' = [store EXCEPT ![key].pname = newParentName]
            /\ dirty' = TRUE
            /\ exc' = exc
    /\ call' = Call("adopt", key, FALSE, FALSE, newParentName)
    /\ events' = <<>>
    /\ UNCHANGED <<loadVars, lastId, nameIndex, attrs, walkVars, tokVars, decVars, migVars>>

\* index()
Index ==
    /\ exc = ""
    /\ dirty
    /\ store' = IndexStore(store, nameIndex)
    /\ exc' = IF IndexRaises(store, nameIndex) THEN "RecursionError" ELSE exc
    /\ dirty' = FALSE
    /\ call' = NoCall
    /\ events' = <<>>
    /\ UNCHANGED <<loadVars, lastId, nameIndex, attrs, adopts, walkVars, tokVars, decVars, migVars>>

\* for node in depthFirst(key, postOrder, doneHook): consumed to its end.
\* A traversal leaves the tree as it is, so each call is taken from the state
\* the last insert, adopt or index left (call = NoCall).
DepthFirst(key, postOrder, doneHook) ==
    /\ exc = ""
    /\ ~dirty
    /\ call = NoCall
    /\ key \in DOMAIN store
    /\ LET evs == depthFirst(store, key, postOrder, doneHook, 0)
       IN /\ events' = evs
          /\ exc' = IF Failed(evs) THEN "RecursionError" ELSE exc
    /\ call' = Call("depthFirst", key, postOrder, doneHook, "")
    /\ UNCHANGED <<loadVars, treeVars, walkVars, tokVars, decVars, migVars>>

\* for node in breadthFirst(key): consumed to its end.
BreadthFirst(key) ==
    /\ exc = ""
    /\ ~dirty
    /\ call = NoCall
    /\ key \in DOMAIN store
    /\ LET evs == breadthFirst(store, key, 0)
       IN /\ events' = evs
          /\ exc' = IF Failed(evs) THEN "RecursionError" ELSE exc
    /\ call' = Call("breadthFirst", key, FALSE, FALSE, "")
    /\ UNCHANGED <<loadVars, treeVars, walkVars, tokVars, decVars, migVars>>

InsertAny == \E n \in Names, p \in ParentArgs : Insert(PyStr(n), FALSE, p, MaxNodes)
AdoptAny == \E k \in 1..MaxNodes, n \in Names : Adopt(k, n)
DepthFirstAny == \E k \in 0..MaxNodes, po \in BOOLEAN : DepthFirst(k, po, TRUE)
BreadthFirstAny == \E k \in 0..MaxNodes : BreadthFirst(k)

Next ==
    \/ InsertAny
    \/ AdoptAny
    \/ Index
    \/ DepthFirstAny
    \/ BreadthFirstAny

Spec == Init /\ [][Next]_vars

\* ---------------------------------------------------------------- tree tests
\* test1 and test2 of t_EDMTree.py: the first insert has no parent argument,
\* every later insert passes as parent the int key an earlier insert returned;
\* then index() and the traversals.
TestNames == {"a", "1", "2"}
InsertFirst == \E n \in TestNames :
    lastId = 0 /\ Insert(PyStr(n), FALSE, PyNone, MaxNodes)
InsertUnderKey == \E n \in TestNames, k \in 1..MaxNodes :
    k <= lastId /\ Insert(PyStr(n), FALSE, PyInt(k), MaxNodes)

NextTest ==
    \/ InsertFirst
    \/ InsertUnderKey
    \/ Index
    \/ DepthFirstAny
    \/ BreadthFirstAny

SpecTest == Init /\ [][NextTest]_vars

\* ---------------------------------------------------------------- owner walk
\* node['attrs'].get('OWNER', False): None stands for the falsy default.
OwnerOf(st, at, key) == at[st[key].attrs].OWNER

\* readForumsXLSX / readDocumentsXLSX, one row with a truthy OWNER cell: the
\* node found by name gets the OWNER attribute; a name not found is skipped.
SetOwner(name, owner) ==
    /\ exc = ""
    /\ ~dirty
    /\ call = NoCall
    /\ LET key == Find(nameIndex, name)
       IN attrs' = IF key # 0
                   THEN [attrs EXCEPT ![store[key].attrs].OWNER = Some(owner)]
                   ELSE attrs
    /\ UNCHANGED <<loadVars, lastId, store, nameIndex, exc, dirty, adopts, travVars, walkVars, tokVars, decVars, migVars>>

\* LoopBody with the test `not docOwner` left out: every marked node opens a
\* scope, an active outer owner or not.
LoopBodyInnerWins(owner, top, name, mark) ==
    IF ~IsNone(mark)
    THEN [docOwner |-> mark, treeTop |-> Some(name)]
    ELSE [docOwner |-> owner, treeTop |-> top]

\* The loop body's scope opening: a marked node met while no owner is active
\* sets the active owner and treeTop.
LoopBody(owner, top, name, mark) ==
    IF ~IsNone(mark) /\ IsNone(owner)
    THEN [docOwner |-> mark, treeTop |-> Some(name)]
    ELSE [docOwner |-> owner, treeTop |-> top]

\* DoneHook with the test `name == treeTop` left out: every finished subtree
\* clears the active owner.
DoneHookAnySubtree(owner, top, name) == None

\* DoneHook with the clearing left out: a finished subtree leaves the active
\* owner in force.
DoneHookKeepsOwner(owner, top, name) == owner

\* doneHook(name): the active owner is cleared when name is treeTop.
DoneHook(owner, top, name) ==
    IF Some(name) = top THEN None ELSE owner

\* The walk starts: docOwner = None, treeTop = None, and the generator
\* depthFirst(doneHook = doneHook) is created over the indexed tree.
WalkStart ==
    /\ exc = ""
    /\ ~dirty
    /\ call = NoCall
    /\ lastId > 0
    /\ call' = Call("walk", 0, FALSE, TRUE, "")
    /\ events' = depthFirst(store, 0, FALSE, TRUE, 0)
    /\ pos' = 1
    /\ docOwner' = None
    /\ treeTop' = None
    /\ scopeKey' = None
    /\ log' = <<>>
    /\ UNCHANGED <<loadVars, treeVars, exc, tokVars, decVars, migVars>>

\* The generator yields a node and the loop body runs on it.
WalkVisit ==
    /\ call.op = "walk"
    /\ pos <= Len(events)
    /\ events[pos].e = "yield"
    /\ LET key == events[pos].key
           after == LoopBody(docOwner, treeTop, store[key].name,
                             OwnerOf(store, attrs, key))
       IN /\ docOwner' = after.docOwner
          /\ treeTop' = after.treeTop
          /\ scopeKey' = IF IsNone(docOwner) /\ ~IsNone(after.docOwner)
                         THEN Some(key) ELSE scopeKey
          /\ log' = Append(log, [key |-> key, owner |-> after.docOwner])
          \* if docOwner == 'STOP!': break
          /\ pos' = IF after.docOwner = Some(StopOwner) THEN Len(events) + 1
                    ELSE pos + 1
    /\ UNCHANGED <<loadVars, treeVars, exc, travVars, tokVars, decVars, migVars>>

\* The generator, resumed, calls the done-hook for a finished subtree.
WalkDone ==
    /\ call.op = "walk"
    /\ pos <= Len(events)
    /\ events[pos].e = "done"
    /\ docOwner' = DoneHook(docOwner, treeTop, events[pos].name)
    /\ scopeKey' = IF scopeKey = Some(events[pos].key) THEN None ELSE scopeKey
    /\ pos' = pos + 1
    /\ UNCHANGED <<loadVars, treeVars, exc, travVars, treeTop, log, tokVars, decVars, migVars>>

\* One source row is loaded into the tree; rows are loaded before index().
LoadRow ==
    /\ lastId = 0 \/ dirty
    /\ \E n \in DocNames, p \in DocParentArgs : Insert(PyStr(n), TRUE, p, MaxDocs)

ReadOwnerRow == \E n \in DocNames, o \in Owners : SetOwner(n, o)

NextOwner ==
    \/ LoadRow
    \/ Index
    \/ ReadOwnerRow
    \/ WalkStart
    \/ WalkVisit
    \/ WalkDone

SpecOwner == Init /\ [][NextOwner]_vars

\* ---------------------------------------------------------------- node attributes
\* Nodes are inserted with an attrs dict of their own, as loadAllForums does,
\* or without the attrs argument, as the tree tests do; readForumsXLSX sets
\* OWNER on the node a row names and clearDocshares deletes every OWNER.
InsertOwnAttrs == \E n \in Names, p \in ParentArgs : Insert(PyStr(n), TRUE, p, MaxDocs)
InsertDefaultAttrs == \E n \in Names, p \in ParentArgs : Insert(PyStr(n), FALSE, p, MaxDocs)

ReadForumRow == \E n \in Names, o \in Owners : SetOwner(n, o)

\* clearDocshares(clearForumOwners = True): del forum['attrs']['OWNER'] for
\* every node of the tree, a missing OWNER passed over.
ClearDocshares ==
    /\ exc = ""
    /\ ~dirty
    /\ call = NoCall
    /\ attrs' = [r \in DOMAIN attrs |->
                   IF \E k \in Keys(store) : store[k].attrs = r
                   THEN [attrs[r] EXCEPT !.OWNER = None] ELSE attrs[r]]
    /\ attrs' # attrs
    /\ UNCHANGED <<loadVars, lastId, store, nameIndex, exc, dirty, adopts, travVars,
                   walkVars, tokVars, decVars, migVars>>

NextAttrs ==
    \/ InsertDefaultAttrs
    \/ InsertOwnAttrs
    \/ Index
    \/ ReadForumRow
    \/ ClearDocshares

SpecAttrs == Init /\ [][NextAttrs]_vars

\* ---------------------------------------------------------------- tokenizer
\* Characters of the generated inputs: a letter, the blank, the newline and the
\* two braces.
TokChars == {"a", " ", "\n", "{", "}"}
IsNewline(c) == c = "\n"
IsSpace(c) == c = " " \/ IsNewline(c)
IsBrace(c) == c = "{" \/ c = "}"

\* A str item and a list item (a ParserNode) of a parse result or an output.
StrItem(s) == [t |-> "str", s |-> s, l |-> <<>>]
ListItem(l) == [t |-> "list", s |-> "", l |-> l]

\* The characters of a sequence joined into a string.
RECURSIVE Join(_)
Join(cs) == IF cs = <<>> THEN "" ELSE cs[1] \o Join(Tail(cs))

\* str.strip(): leading and trailing blanks removed.
RECURSIVE LStrip(_), RStrip(_)
LStrip(cs) == IF cs # <<>> /\ IsSpace(cs[1]) THEN LStrip(Tail(cs)) ELSE cs
RStrip(cs) ==
    IF cs # <<>> /\ IsSpace(cs[Len(cs)]) THEN RStrip(SubSeq(cs, 1, Len(cs) - 1)) ELSE cs
Strip(cs) == RStrip(LStrip(cs))

\* str.split(): the maximal runs of non-blank characters, as strings.
RECURSIVE WordEnd(_, _), Split(_)
WordEnd(cs, i) == IF i > Len(cs) \/ IsSpace(cs[i]) THEN i ELSE WordEnd(cs, i + 1)
Split(cs) ==
    LET rest == LStrip(cs)
    IN IF rest = <<>> THEN <<>>
       ELSE <<Join(SubSeq(rest, 1, WordEnd(rest, 1) - 1))>>
            \o Split(SubSeq(rest, WordEnd(rest, 1), Len(rest)))

\* The scanner's rule r"\s+": the position after the run of blanks at i.
RECURSIVE SpaceEnd(_, _)
SpaceEnd(cs, i) == IF i <= Len(cs) /\ IsSpace(cs[i]) THEN SpaceEnd(cs, i + 1) ELSE i

\* The lookahead (?=(\}|\{|$)) at position j: a brace, the end of the input,
\* or the newline that is the input's last character.
AtLookahead(cs, j) ==
    j > Len(cs) \/ IsBrace(cs[j]) \/ (IsNewline(cs[j]) /\ j = Len(cs))

\* OtherEnd that also ends the run at a blank.
RECURSIVE OtherEndAtBlank(_, _)
OtherEndAtBlank(cs, i) ==
    IF AtLookahead(cs, i + 1) \/ IsSpace(cs[i + 1]) THEN i + 1
    ELSE OtherEndAtBlank(cs, i + 1)

\* The scanner's rule ".+?(?=(\}|\{|$))": the position after the shortest
\* non-empty run of non-newline characters from i that the lookahead follows;
\* 0 when a newline comes first and the rule does not match.
RECURSIVE OtherEnd(_, _)
OtherEnd(cs, i) ==
    IF AtLookahead(cs, i + 1) THEN i + 1
    ELSE IF IsNewline(cs[i + 1]) THEN 0
    ELSE OtherEnd(cs, i + 1)

\* No rule of the scanner matches at position i: the scan stops there.
NoMatch(cs, i) ==
    i <= Len(cs) /\ ~IsBrace(cs[i]) /\ ~IsSpace(cs[i]) /\ OtherEnd(cs, i) = 0

\* list.append(item) on the ParserNode at a path below the root.
RECURSIVE AppendAt(_, _, _)
AppendAt(items, path, item) ==
    IF path = <<>> THEN Append(items, item)
    ELSE [items EXCEPT ![path[1]].l = AppendAt(@, Tail(path), item)]

\* len() of the ParserNode at a path below the root.
RECURSIVE LenAt(_, _)
LenAt(items, path) ==
    IF path = <<>> THEN Len(items) ELSE LenAt(items[path[1]].l, Tail(path))

\* ParserNode.parent of the node at a path: None for the root node.
ParentPath(path) ==
    IF path = <<>> THEN None ELSE Some(SubSeq(path, 1, Len(path) - 1))

\* The items of a parse result as returned: token characters joined to strings.
RECURSIVE AsValue(_)
AsValue(item) ==
    IF item.t = "str" THEN StrItem(Join(item.l))
    ELSE ListItem([i \in 1..Len(item.l) |-> AsValue(item.l[i])])

\* A token of the parse result: its characters are kept in the l field.
Token(cs) == [t |-> "str", s |-> "", l |-> cs]

\* splitOnBracketsOrSpace's loop body for one top-level item: a str is split
\* into words, a group of one item gives that item, an empty group gives '',
\* any other group is kept as a list.
OutputOf(item) ==
    IF item.t = "str" THEN [i \in 1..Len(Split(item.l)) |-> StrItem(Split(item.l)[i])]
    ELSE IF Len(item.l) = 1 THEN <<AsValue(item.l[1])>>
    ELSE IF Len(item.l) = 0 THEN <<StrItem("")>>
    ELSE <<AsValue(item)>>

\* splitOnBracketsOrSpace's loop over the top-level items.
RECURSIVE OutputAll(_, _)
OutputAll(items, i) ==
    IF i > Len(items) THEN <<>> ELSE OutputOf(items[i]) \o OutputAll(items, i + 1)

\* The scanner meets '{': NestedParser.left.
ScanLeft ==
    /\ tpc = "scan" /\ tpos <= Len(input) /\ input[tpos] = "{"
    /\ IF IsNone(current)
       THEN /\ tpc' = "raised"
            /\ exc' = "AttributeError"
            /\ UNCHANGED <<tpos, result, current>>
       ELSE /\ result' = AppendAt(result, Val(current), ListItem(<<>>))
            /\ current' = Some(Append(Val(current), LenAt(result, Val(current)) + 1))
            /\ tpos' = tpos + 1
            /\ UNCHANGED <<tpc, exc>>
    /\ UNCHANGED <<loadVars, treeVars, travVars, walkVars, decVars, migVars, input, output>>

\* The scanner meets '}': NestedParser.right.
ScanRight ==
    /\ tpc = "scan" /\ tpos <= Len(input) /\ input[tpos] = "}"
    /\ IF IsNone(current)
       THEN /\ tpc' = "raised"
            /\ exc' = "AttributeError"
            /\ UNCHANGED <<tpos, current>>
       ELSE /\ current' = ParentPath(Val(current))
            /\ tpos' = tpos + 1
            /\ UNCHANGED <<tpc, exc>>
    /\ UNCHANGED <<loadVars, treeVars, travVars, walkVars, decVars, migVars, input, result, output>>

\* The scanner meets blanks: the rule r"\s+" has no action.
ScanSpace ==
    /\ tpc = "scan" /\ tpos <= Len(input) /\ IsSpace(input[tpos])
    /\ tpos' = SpaceEnd(input, tpos)
    /\ UNCHANGED <<loadVars, treeVars, travVars, walkVars, decVars, migVars, exc, input, tpc, result, current, output>>

\* The scanner meets any other text: NestedParser.other.
ScanOther ==
    /\ tpc = "scan" /\ tpos <= Len(input)
    /\ ~IsBrace(input[tpos]) /\ ~IsSpace(input[tpos])
    /\ ~NoMatch(input, tpos)
    /\ IF IsNone(current)
       THEN /\ tpc' = "raised"
            /\ exc' = "AttributeError"
            /\ UNCHANGED <<tpos, result>>
       ELSE /\ result' = AppendAt(result, Val(current),
                           Token(Strip(SubSeq(input, tpos, OtherEnd(input, tpos) - 1))))
            /\ tpos' = OtherEnd(input, tpos)
            /\ UNCHANGED <<tpc, exc>>
    /\ UNCHANGED <<loadVars, treeVars, travVars, walkVars, decVars, migVars, input, current, output>>

\* The scan is over, at the end of the input or where no rule matches:
\* splitOnBracketsOrSpace builds and returns its output.
TokReturn ==
    /\ tpc = "scan" /\ (tpos > Len(input) \/ NoMatch(input, tpos))
    /\ output' = OutputAll(result, 1)
    /\ tpc' = "done"
    /\ UNCHANGED <<loadVars, treeVars, travVars, walkVars, decVars, migVars, exc, input, tpos, result, current>>

\* All character sequences of length n over TokChars.
RECURSIVE Strings(_)
Strings(n) ==
    IF n = 0 THEN {<<>>}
    ELSE {Append(cs, c) : cs \in Strings(n - 1), c \in TokChars}

\* The input 'a {{b} {c d}} e'.
NestedExample ==
    <<"a", " ", "{", "{", "b", "}", " ", "{", "c", " ", "d", "}", "}", " ", "e">>

\* The inputs 'a {b c} d' and 'file.pdf {}{}{t}'.
FlatExample == <<"a", " ", "{", "b", " ", "c", "}", " ", "d">>
EmptyGroupsExample == <<"file", ".", "pdf", " ", "{", "}", "{", "}", "{", "t", "}">>

\* The inputs handed to splitOnBracketsOrSpace.
TokInputs ==
    UNION {Strings(n) : n \in 0..MaxLen}
        \cup {NestedExample, FlatExample, EmptyGroupsExample}

InitTok ==
    /\ lastId = 0
    /\ store = [k \in {0} |-> RootNode]
    /\ nameIndex = [n \in {} |-> 0]
    /\ attrs = [r \in {DefaultAttrs} |-> [OWNER |-> None]]
    /\ exc = ""
    /\ dirty = FALSE
    /\ adopts = 0
    /\ call = NoCall
    /\ events = <<>>
    /\ pos = 0
    /\ docOwner = None
    /\ treeTop = None
    /\ scopeKey = None
    /\ log = <<>>
    /\ input \in TokInputs
    /\ tpc = "scan"
    /\ tpos = 1
    /\ result = <<>>
    /\ current = Some(<<>>)
    /\ output = <<>>
    /\ values = <<>>
    /\ vals = <<>>
    /\ attrsOut = <<>>
    /\ dpc = "idle"
    /\ lastDocID = None
    /\ phase = "idle"
    /\ forumNo = 0
    /\ forumOwner = None
    /\ sheet = <<>>
    /\ rows = <<>>
    /\ forums = <<>>
    /\ MySQLConfig = NoMySQL
    /\ queryResult = <<>>
    /\ forumRows = None
    /\ rowNo = 0
    /\ lpc = "idle"

NextTok ==
    \/ ScanLeft
    \/ ScanRight
    \/ ScanSpace
    \/ ScanOther
    \/ TokReturn

SpecTok == InitTok /\ [][NextTok]_vars

\* ---------------------------------------------------------------- decoders
\* Python values of the decoders: None is None, a str is Token(its characters),
\* '' is Token(<<>>), a nested list is ListItem(its items), a dict is a
\* function from its keys.
EmptyStr == Token(<<>>)
EmptyDict == <<>>
Truthy(v) == IF v.t = "list" THEN Len(v.l) > 0 ELSE v.l # <<>>

\* A call that returned the value v, and a call that raised exception e.
Return(v) == [raised |-> FALSE, exc |-> "", v |-> v]
Raise(e) == [raised |-> TRUE, exc |-> e, v |-> <<>>]

\* d[k] = v on a dict, and {**d1, **d2}: the entries of d2 override d1's.
Put(d, k, v) == [x \in DOMAIN d \cup {k} |-> IF x = k THEN v ELSE d[x]]
Merge(d1, d2) ==
    [x \in DOMAIN d1 \cup DOMAIN d2 |-> IF x \in DOMAIN d2 THEN d2[x] ELSE d1[x]]

\* str.split() keeping the characters of each word.
RECURSIVE Words(_)
Words(cs) ==
    LET rest == LStrip(cs)
    IN IF rest = <<>> THEN <<>>
       ELSE <<SubSeq(rest, 1, WordEnd(rest, 1) - 1)>>
            \o Words(SubSeq(rest, WordEnd(rest, 1), Len(rest)))

\* NestedParser.parse(content): the scanner run from position i with the
\* result items res and the current node's path cur; it returns the items of
\* the root node or raises where left, right or other use a current of None.
RECURSIVE parse(_, _, _, _)
parse(cs, i, res, cur) ==
    IF i > Len(cs) \/ NoMatch(cs, i) THEN Return(res)
    ELSE IF IsSpace(cs[i]) THEN parse(cs, SpaceEnd(cs, i), res, cur)
    ELSE IF cs[i] = "}"
         THEN IF IsNone(cur) THEN Raise("AttributeError")
              ELSE parse(cs, i + 1, res, ParentPath(Val(cur)))
    ELSE IF IsNone(cur) THEN Raise("AttributeError")
    ELSE IF cs[i] = "{"
         THEN parse(cs, i + 1, AppendAt(res, Val(cur), ListItem(<<>>)),
                    Some(Append(Val(cur), LenAt(res, Val(cur)) + 1)))
    ELSE parse(cs, OtherEnd(cs, i),
               AppendAt(res, Val(cur), Token(Strip(SubSeq(cs, i, OtherEnd(cs, i) - 1)))),
               cur)

\* splitOnBracketsOrSpace's loop body for one top-level item, the characters
\* of each str kept.
TokensOf(item) ==
    IF item.t = "str" THEN [i \in 1..Len(Words(item.l)) |-> Token(Words(item.l)[i])]
    ELSE IF Len(item.l) = 1 THEN <<item.l[1]>>
    ELSE IF Len(item.l) = 0 THEN <<EmptyStr>>
    ELSE <<item>>

RECURSIVE TokensAll(_, _)
TokensAll(items, i) ==
    IF i > Len(items) THEN <<>> ELSE TokensOf(items[i]) \o TokensAll(items, i + 1)

\* splitOnBracketsOrSpace(inputStr), inputStr None or a str: the list returned,
\* or the exception of the parser re-raised.
splitOnBracketsOrSpace(inputStr) ==
    IF IsNone(inputStr) \/ Val(inputStr) = <<>> THEN Return(<<>>)
    ELSE LET items == parse(Val(inputStr), 1, <<>>, Some(<<>>))
         IN IF items.raised THEN items ELSE Return(TokensAll(items.v, 1))

\* The lookup tables of parseTE_Values and parseDE_Values.
TE_Lookup ==
    [k \in {"authoreso", "groupeso", "number", "status"} |->
        CASE k = "authoreso" -> "AUTHORS"
          [] k = "groupeso" -> "EDITORS"
          [] k = "number" -> "ALMA_DOC_NUMBER_TE"
          [] k = "status" -> "DOC_STATUS_TE"]
DE_Lookup ==
    [k \in {"de_ele8671", "de_ele10279", "de_ele12796"} |->
        CASE k = "de_ele8671" -> "ALMA_DOC_NUMBER_DE"
          [] k = "de_ele10279" -> "FILE_NAME_DE"
          [] k = "de_ele12796" -> "AUTHORS"]

\* PairsPass that reads the token after an unrecognized key as the next key.
PairsPassKeepValue(vs, out, lookup) ==
    IF Len(vs) = 1 THEN [vals |-> <<>>, out |-> out, exc |-> ""]
    ELSE IF vs[1].t = "list"
         THEN [vals |-> SubSeq(vs, 3, Len(vs)), out |-> out, exc |-> "TypeError"]
    ELSE IF Join(vs[1].l) \in DOMAIN lookup
         THEN [vals |-> SubSeq(vs, 3, Len(vs)),
               out |-> Put(out, lookup[Join(vs[1].l)], vs[2]), exc |-> ""]
    ELSE [vals |-> SubSeq(vs, 2, Len(vs)), out |-> out, exc |-> ""]

\* One pass of parsePairs' while loop on a non-empty vals: key and value are
\* popped (a missing value raises IndexError inside the try, which is passed
\* over); lookup.get(key) raises TypeError for a key that is a list; the value
\* is stored under the field of a recognized key.
PairsPass(vs, out, lookup) ==
    IF Len(vs) = 1 THEN [vals |-> <<>>, out |-> out, exc |-> ""]
    ELSE IF vs[1].t = "list"
         THEN [vals |-> SubSeq(vs, 3, Len(vs)), out |-> out, exc |-> "TypeError"]
    ELSE IF Join(vs[1].l) \in DOMAIN lookup
         THEN [vals |-> SubSeq(vs, 3, Len(vs)),
               out |-> Put(out, lookup[Join(vs[1].l)], vs[2]), exc |-> ""]
    ELSE [vals |-> SubSeq(vs, 3, Len(vs)), out |-> out, exc |-> ""]

\* parsePairs(values, lookup): the dict returned, or the exception raised.
RECURSIVE PairsLoop(_, _, _)
PairsLoop(vs, out, lookup) ==
    IF vs = <<>> THEN Return(out)
    ELSE LET pass == PairsPass(vs, out, lookup)
         IN IF pass.exc # "" THEN Raise(pass.exc)
            ELSE PairsLoop(pass.vals, pass.out, lookup)
parsePairs(vs, lookup) == PairsLoop(vs, EmptyDict, lookup)

\* parsePairs is called: vals = copy.copy(values), attrsOut = {}.
PairsCall ==
    /\ dpc = "idle"
    /\ vals' = values
    /\ attrsOut' = EmptyDict
    /\ dpc' = "loop"
    /\ UNCHANGED <<loadVars, treeVars, travVars, walkVars, tokVars, migVars, exc, values>>

\* One pass of the while loop.
PairsIterate ==
    /\ dpc = "loop" /\ vals # <<>>
    /\ LET pass == PairsPass(vals, attrsOut, TE_Lookup)
       IN /\ vals' = pass.vals
          /\ attrsOut' = pass.out
          /\ exc' = pass.exc
          /\ dpc' = IF pass.exc # "" THEN "raised" ELSE "loop"
    /\ UNCHANGED <<loadVars, treeVars, travVars, walkVars, tokVars, migVars, values>>

\* vals is empty: parsePairs returns attrsOut.
PairsReturn ==
    /\ dpc = "loop" /\ vals = <<>>
    /\ dpc' = "done"
    /\ UNCHANGED <<loadVars, treeVars, travVars, walkVars, tokVars, migVars, exc, values, vals, attrsOut>>

\* The tokens of the lists handed to parsePairs, and the flat lists of up to
\* MaxPairsLen of them.
PairTokens == {Token(<<"authoreso">>), Token(<<"number">>), Token(<<"x">>)}
RECURSIVE PairLists(_)
PairLists(n) ==
    IF n = 0 THEN {<<>>}
    ELSE {Append(vs, t) : vs \in PairLists(n - 1), t \in PairTokens}

InitPairs ==
    /\ lastId = 0
    /\ store = [k \in {0} |-> RootNode]
    /\ nameIndex = [n \in {} |-> 0]
    /\ attrs = [r \in {DefaultAttrs} |-> [OWNER |-> None]]
    /\ exc = ""
    /\ dirty = FALSE
    /\ adopts = 0
    /\ call = NoCall
    /\ events = <<>>
    /\ pos = 0
    /\ docOwner = None
    /\ treeTop = None
    /\ scopeKey = None
    /\ log = <<>>
    /\ input = <<>>
    /\ tpc = "idle"
    /\ tpos = 1
    /\ result = <<>>
    /\ current = Some(<<>>)
    /\ output = <<>>
    /\ values \in UNION {PairLists(n) : n \in 0..MaxPairsLen}
    /\ vals = <<>>
    /\ attrsOut = EmptyDict
    /\ dpc = "idle"
    /\ lastDocID = None
    /\ phase = "idle"
    /\ forumNo = 0
    /\ forumOwner = None
    /\ sheet = <<>>
    /\ rows = <<>>
    /\ forums = <<>>
    /\ MySQLConfig = NoMySQL
    /\ queryResult = <<>>
    /\ forumRows = None
    /\ rowNo = 0
    /\ lpc = "idle"

NextPairs ==
    \/ PairsCall
    \/ PairsIterate
    \/ PairsReturn

SpecPairs == InitPairs /\ [][NextPairs]_vars

\* parseTE_Values(te_values), te_values None or a str: the four canonical
\* keys default to '', the recognized pairs of the tokenized field override.
parseTE_Values(te_values) ==
    LET attrsDefault == [k \in {"AUTHORS", "EDITORS", "ALMA_DOC_NUMBER_TE",
                                "DOC_STATUS_TE"} |-> EmptyStr]
        tokens == splitOnBracketsOrSpace(te_values)
        pairs == parsePairs(tokens.v, TE_Lookup)
    IN IF IsNone(te_values) \/ Val(te_values) = <<>> THEN Return(attrsDefault)
       ELSE IF tokens.raised THEN tokens
       ELSE IF pairs.raised THEN pairs
       ELSE Return(Merge(attrsDefault, pairs.v))

\* parseDE_Values(de_values), de_values None or a str.
parseDE_Values(de_values) ==
    LET attrsDefault == [k \in {"ALMA_DOC_NUMBER_DE", "FILE_NAME_DE", "AUTHORS"} |->
                            EmptyStr]
        tokens == splitOnBracketsOrSpace(de_values)
        pairs == parsePairs(tokens.v, DE_Lookup)
    IN IF IsNone(de_values) \/ Val(de_values) = <<>> THEN Return(attrsDefault)
       ELSE IF tokens.raised THEN tokens
       ELSE IF pairs.raised THEN pairs
       ELSE Return(Merge(attrsDefault, pairs.v))

\* str.split(sep) for the one-character separators seps: the parts between
\* them, empty parts included.
RECURSIVE SplitOn(_, _, _)
SplitOn(cs, seps, part) ==
    IF cs = <<>> THEN <<part>>
    ELSE IF cs[1] \in seps THEN <<part>> \o SplitOn(Tail(cs), seps, <<>>)
    ELSE SplitOn(Tail(cs), seps, Append(part, cs[1]))

\* parseAlmaDocNum(almaDocNum), almaDocNum None, a str or a list: '-' and '.'
\* become '|' and the string is split on '|'; DOC_TYPE is the last part and
\* DOC_VERSION the one before it (the IndexError of a single part is passed
\* over); a list has no translate method.
parseAlmaDocNum(almaDocNum) ==
    LET attrsDefault == [k \in {"DOC_TYPE", "DOC_VERSION"} |-> EmptyStr]
        almaDoc == SplitOn(Val(almaDocNum).l, {"-", ".", "|"}, <<>>)
        n == Len(almaDoc)
    IN IF IsNone(almaDocNum) \/ ~Truthy(Val(almaDocNum)) THEN Return(attrsDefault)
       ELSE IF Val(almaDocNum).t = "list" THEN Raise("AttributeError")
       ELSE IF n >= 2
            THEN Return([attrsDefault EXCEPT !["DOC_TYPE"] = Token(almaDoc[n]),
                                             !["DOC_VERSION"] = Token(almaDoc[n - 1])])
       ELSE Return([attrsDefault EXCEPT !["DOC_TYPE"] = Token(almaDoc[n])])

\* parseUploadFileInfo(uploadFileInfo), uploadFileInfo None or a str: the
\* tokens at positions 0, 2 and 3 of the tokenized field.
parseUploadFileInfo(uploadFileInfo) ==
    LET attrsDefault == [k \in {"FILE_NAME_UL", "UPLOAD_BY", "UPLOAD_DATETIME"} |->
                            EmptyStr]
        upload == splitOnBracketsOrSpace(uploadFileInfo)
        n == Len(upload.v)
    IN IF IsNone(uploadFileInfo) \/ Val(uploadFileInfo) = <<>> THEN Return(attrsDefault)
       ELSE IF upload.raised THEN upload
       ELSE Return([k \in DOMAIN attrsDefault |->
                      IF k = "FILE_NAME_UL" /\ n >= 1 THEN upload.v[1]
                      ELSE IF k = "UPLOAD_BY" /\ n >= 3 THEN upload.v[3]
                      ELSE IF k = "UPLOAD_DATETIME" /\ n >= 4 THEN upload.v[4]
                      ELSE EmptyStr])

\* The letters of the generated inputs as <<character, lower case, upper case>>;
\* every other character has no case.
Letters ==
    {<<"a", "a", "A">>, <<"A", "a", "A">>, <<"b", "b", "B">>, <<"c", "c", "C">>,
     <<"d", "d", "D">>, <<"e", "e", "E">>, <<"g", "g", "G">>, <<"t", "t", "T">>,
     <<"x", "x", "X">>, <<"file", "file", "FILE">>, <<"pdf", "pdf", "PDF">>,
     <<"doc", "doc", "DOC">>, <<"DOCX", "docx", "DOCX">>, <<"docx", "docx", "DOCX">>,
     <<"Spec", "spec", "SPEC">>, <<"plan", "plan", "PLAN">>, <<"xyz", "xyz", "XYZ">>,
     <<"alice", "alice", "ALICE">>, <<"bob", "bob", "BOB">>,
     <<"carol", "carol", "CAROL">>, <<"dan", "dan", "DAN">>,
     <<"authoreso", "authoreso", "AUTHORESO">>,
     <<"de_ele12796", "de_ele12796", "DE_ELE12796">>,
     <<"de_ele10279", "de_ele10279", "DE_ELE10279">>,
     <<"ALMA", "alma", "ALMA">>, <<"alma", "alma", "ALMA">>,
     <<"ICD", "icd", "ICD">>, <<"icd", "icd", "ICD">>,
     <<"None", "none", "NONE">>, <<"Draft", "draft", "DRAFT">>,
     <<"N", "n", "N">>, <<"R", "r", "R">>, <<"O", "o", "O">>, <<"E", "e", "E">>,
     <<"D", "d", "D">>, <<"U", "u", "U">>}
\* str.lower() and str.upper(), character by character.
Lower(c) == IF \E l \in Letters : l[1] = c THEN (CHOOSE l \in Letters : l[1] = c)[2] ELSE c
Upper(c) == IF \E l \in Letters : l[1] = c THEN (CHOOSE l \in Letters : l[1] = c)[3] ELSE c

\* The largest index of a character of set S in cs, 0 when there is none.
RECURSIVE LastIndex(_, _, _)
LastIndex(cs, S, i) ==
    IF i = 0 THEN 0 ELSE IF cs[i] \in S THEN i ELSE LastIndex(cs, S, i - 1)

\* os.path.splitext(p)[1]: the text from the last dot of the last path
\* component on, when a character other than a dot comes before that dot in
\* the component; '' otherwise.
SplitExt(cs) ==
    LET sepIndex == LastIndex(cs, {"/"}, Len(cs))
        dotIndex == LastIndex(cs, {"."}, Len(cs))
    IN IF dotIndex > sepIndex
          /\ \E i \in (sepIndex + 1)..(dotIndex - 1) : cs[i] # "."
       THEN SubSeq(cs, dotIndex, Len(cs))
       ELSE <<>>

\* str.strip('.')
RECURSIVE StripDots(_)
StripDots(cs) ==
    IF cs # <<>> /\ cs[1] = "." THEN StripDots(Tail(cs))
    ELSE IF cs # <<>> /\ cs[Len(cs)] = "." THEN StripDots(SubSeq(cs, 1, Len(cs) - 1))
    ELSE cs

\* The display name of a lower-cased extension, '' when the table has none.
FileTypeOf(ext) ==
    CASE ext \in {"pdf"} -> "Adobe PDF"
      [] ext \in {"dwg"} -> "AUTOCAD DWG"
      [] ext \in {"doc", "docx", "docm"} -> "MS Word"
      [] ext \in {"ppt", "pptx", "pptm"} -> "MS PowerPoint"
      [] ext \in {"xls", "xlsx", "xlsm", "xlst"} -> "MS Excel"
      [] ext \in {"mpp", "mpt"} -> "MS Project"
      [] ext \in {"vsd", "vsdx", "vsdm"} -> "MS Visio"
      [] ext \in {"txt", "csv", "ini"} -> "Txt"
      [] OTHER -> ""

\* parseFilename(filename), filename None, a str or a list: the FILE_TYPE of
\* the extension, the upper-cased extension when the table has none;
\* os.path.splitext raises TypeError for a list.
parseFilename(filename) ==
    LET ext == StripDots(SplitExt(Val(filename).l))
        lower == Join([i \in 1..Len(ext) |-> Lower(ext[i])])
        upper == [i \in 1..Len(ext) |-> Upper(Lower(ext[i]))]
    IN IF IsNone(filename) \/ ~Truthy(Val(filename))
       THEN Return([k \in {"FILE_TYPE"} |-> EmptyStr])
       ELSE IF Val(filename).t = "list" THEN Raise("TypeError")
       ELSE IF FileTypeOf(lower) # ""
            THEN Return([k \in {"FILE_TYPE"} |-> Token(<<FileTypeOf(lower)>>)])
       ELSE Return([k \in {"FILE_TYPE"} |-> Token(upper)])

\* A decoder is called on the raw field `input` (parseFilename and
\* parseAlmaDocNum on a value: the field as a str, or the first token of the
\* tokenized field) and returns its dict or raises.
Decode(op, ret) ==
    /\ dpc = "idle"
    /\ call' = Call(op, 0, FALSE, FALSE, "")
    /\ attrsOut' = ret.v
    /\ exc' = ret.exc
    /\ dpc' = IF ret.raised THEN "raised" ELSE "done"
    /\ UNCHANGED <<loadVars, treeVars, events, walkVars, tokVars, migVars, values, vals>>

\* The values a raw field gives: the field itself, and its first token.
ValuesOf(cs) ==
    {Token(cs)} \cup
    (IF ~splitOnBracketsOrSpace(Some(cs)).raised
        /\ Len(splitOnBracketsOrSpace(Some(cs)).v) >= 1
     THEN {splitOnBracketsOrSpace(Some(cs)).v[1]} ELSE {})

ParseTE_Values == Decode("parseTE_Values", parseTE_Values(Some(input)))
ParseDE_Values == Decode("parseDE_Values", parseDE_Values(Some(input)))
ParseUploadFileInfo == Decode("parseUploadFileInfo", parseUploadFileInfo(Some(input)))
ParseAlmaDocNum ==
    \E v \in ValuesOf(input) : Decode("parseAlmaDocNum", parseAlmaDocNum(Some(v)))
ParseFilename ==
    \E v \in ValuesOf(input) : Decode("parseFilename", parseFilename(Some(v)))

\* Raw fields of the legacy records: 'authoreso {alice bob}',
\* 'de_ele12796 {carol dan} de_ele10279 g.doc', 'de_ele12796 {{a} {b}}',
\* '{{a} {b}} x', 'file.pdf {}{}{2021/01/01-00:00:00}', '} a',
\* 'ALMA-56.03-A-ICD', 'Spec.DOCX' and 'plan.xyz'.
TE_Example == <<"authoreso", " ", "{", "alice", " ", "bob", "}">>
DE_Example ==
    <<"de_ele12796", " ", "{", "carol", " ", "dan", "}", " ",
      "de_ele10279", " ", "g", ".", "doc">>
NestedAuthors == <<"de_ele12796", " ", "{", "{", "a", "}", " ", "{", "b", "}", "}">>
NestedKey == <<"{", "{", "a", "}", " ", "{", "b", "}", "}", " ", "x">>
UploadExample ==
    <<"file", ".", "pdf", " ", "{", "}", "{", "}", "{",
      "2021", "/", "01", "/", "01", "-", "00", ":", "00", ":", "00", "}">>
StrayClose == <<"}", " ", "a">>
DocNumExample == <<"ALMA", "-", "56", ".", "03", "-", "A", "-", "ICD">>
RawFields ==
    TokInputs \cup {TE_Example, DE_Example, NestedAuthors, NestedKey, UploadExample,
                    StrayClose, DocNumExample,
                    <<"Spec", ".", "DOCX">>, <<"plan", ".", "xyz">>}

InitDec ==
    /\ lastId = 0
    /\ store = [k \in {0} |-> RootNode]
    /\ nameIndex = [n \in {} |-> 0]
    /\ attrs = [r \in {DefaultAttrs} |-> [OWNER |-> None]]
    /\ exc = ""
    /\ dirty = FALSE
    /\ adopts = 0
    /\ call = NoCall
    /\ events = <<>>
    /\ pos = 0
    /\ docOwner = None
    /\ treeTop = None
    /\ scopeKey = None
    /\ log = <<>>
    /\ input \in RawFields
    /\ tpc = "idle"
    /\ tpos = 1
    /\ result = <<>>
    /\ current = Some(<<>>)
    /\ output = <<>>
    /\ values = <<>>
    /\ vals = <<>>
    /\ attrsOut = EmptyDict
    /\ dpc = "idle"
    /\ lastDocID = None
    /\ phase = "idle"
    /\ forumNo = 0
    /\ forumOwner = None
    /\ sheet = <<>>
    /\ rows = <<>>
    /\ forums = <<>>
    /\ MySQLConfig = NoMySQL
    /\ queryResult = <<>>
    /\ forumRows = None
    /\ rowNo = 0
    /\ lpc = "idle"

NextDec ==
    \/ ParseTE_Values
    \/ ParseDE_Values
    \/ ParseUploadFileInfo
    \/ ParseAlmaDocNum
    \/ ParseFilename

SpecDec == InitDec /\ [][NextDec]_vars

\* ---------------------------------------------------------------- logo
\* The characters \w matches, and the class [\w\-\.] of the NRAO rule.
WordChars ==
    {"a", "b", "c", "d", "e", "f", "g", "h", "i", "j", "k", "l", "m", "n", "o", "p",
     "q", "r", "s", "t", "u", "v", "w", "x", "y", "z",
     "A", "B", "C", "D", "E", "F", "G", "H", "I", "J", "K", "L", "M", "N", "O", "P",
     "Q", "R", "S", "T", "U", "V", "W", "X", "Y", "Z",
     "0", "1", "2", "3", "4", "5", "6", "7", "8", "9", "_"}
DomainClass == WordChars \cup {"-", "."}

\* The elements of the patterns: a literal character, the unescaped dot (any
\* character but the newline), and [\w\-\.]*.
Lit(c) == [k |-> "lit", c |-> c]
AnyChar == [k |-> "any", c |-> ""]
ClassStar == [k |-> "star", c |-> ""]
Lits(cs) == [i \in 1..Len(cs) |-> Lit(cs[i])]

\* The pattern pat from its j-th element on matches cs from position i on;
\* atEnd is the pattern's closing $: the end of cs, or the newline that ends it.
RECURSIVE MatchFrom(_, _, _, _, _)
MatchFrom(cs, i, pat, j, atEnd) ==
    IF j > Len(pat)
    THEN ~atEnd \/ i = Len(cs) + 1 \/ (i = Len(cs) /\ cs[i] = "\n")
    ELSE IF pat[j].k = "star"
    THEN \/ MatchFrom(cs, i, pat, j + 1, atEnd)
         \/ (i <= Len(cs) /\ cs[i] \in DomainClass /\ MatchFrom(cs, i + 1, pat, j, atEnd))
    ELSE /\ i <= Len(cs)
         /\ IF pat[j].k = "any" THEN cs[i] # "\n" ELSE cs[i] = pat[j].c
         /\ MatchFrom(cs, i + 1, pat, j + 1, atEnd)

\* The domains asiaa.sinica.edu.tw, alma.cl and nrao.edu.
ASIAA == <<"a", "s", "i", "a", "a", ".", "s", "i", "n", "i", "c", "a", ".", "e", "d", "u", ".", "t", "w">>
ALMACL == <<"a", "l", "m", "a", ".", "c", "l">>
NRAOEDU == <<"n", "r", "a", "o", ".", "e", "d", "u">>

\* re.search(pattern, cs)
Search(cs, pat, atEnd) == \E i \in 1..(Len(cs) + 1) : MatchFrom(cs, i, pat, 1, atEnd)

\* re.search('nrao|nrc[\w\-\.]*.ca', domain)
NraoRule(domain) ==
    \/ Search(domain, Lits(<<"n", "r", "a", "o">>), FALSE)
    \/ Search(domain, Lits(<<"n", "r", "c">>) \o <<ClassStar, AnyChar>>
                      \o Lits(<<"c", "a">>), FALSE)

\* re.search('(eso.org|\.es|\.fr|\.ac.uk|\.nl|\.it|\.se)$', domain)
EsoRule(domain) ==
    \E pat \in {Lits(<<"e", "s", "o">>) \o <<AnyChar>> \o Lits(<<"o", "r", "g">>),
                Lits(<<".", "e", "s">>), Lits(<<".", "f", "r">>),
                Lits(<<".", "a", "c">>) \o <<AnyChar>> \o Lits(<<"u", "k">>),
                Lits(<<".", "n", "l">>), Lits(<<".", "i", "t">>),
                Lits(<<".", "s", "e">>)} :
        Search(domain, pat, TRUE)

\* re.search('\.ac\.jp$', domain), and domain in ['asiaa.sinica.edu.tw']
NaojRule(domain) ==
    \/ Search(domain, Lits(<<".", "a", "c", ".", "j", "p">>), TRUE)
    \/ domain = ASIAA

\* domain in ['alma.cl']
JaoRule(domain) == domain = ALMACL

\* postedBy in ['ral']
IsRal(postedBy) == postedBy = <<"r", "a", "l">>

\* IssAgency with the exact-name exception tried before every domain rule.
IssAgencyNameFirst(postedBy, domain) ==
    IF IsRal(postedBy) \/ (~NraoRule(domain) /\ EsoRule(domain)) THEN Token(<<"ESO">>)
    ELSE IF NraoRule(domain) THEN Token(<<"NRAO">>)
    ELSE IF NaojRule(domain) THEN Token(<<"NAOJ">>)
    ELSE IF JaoRule(domain) THEN Token(<<"JAO">>)
    ELSE Token(<<"Not ALMA DOC<">> \o domain \o <<">">>)

\* parseLogo's if / elif chain on the poster and the lower-cased domain.
IssAgency(postedBy, domain) ==
    IF NraoRule(domain) THEN Token(<<"NRAO">>)
    ELSE IF IsRal(postedBy) \/ EsoRule(domain) THEN Token(<<"ESO">>)
    ELSE IF NaojRule(domain) THEN Token(<<"NAOJ">>)
    ELSE IF JaoRule(domain) THEN Token(<<"JAO">>)
    ELSE Token(<<"Not ALMA DOC<">> \o domain \o <<">">>)

\* '.'.join(words)
RECURSIVE JoinDots(_)
JoinDots(ws) ==
    IF ws = <<>> THEN <<>>
    ELSE IF Len(ws) = 1 THEN ws[1]
    ELSE ws[1] \o <<".">> \o JoinDots(Tail(ws))

\* parseLogo(logo), logo None or a str: POSTED_BY from the first token and
\* ISS_AGENCY from the domain of the sixth; a token that is a nested list has
\* no split method.
parseLogo(logo) ==
    LET attrsDefault == [k \in {"POSTED_BY", "ISS_AGENCY"} |-> EmptyStr]
        tokens == splitOnBracketsOrSpace(logo)
        n == Len(tokens.v)
        postedBy == JoinDots(Words(tokens.v[1].l))
        named == IF n >= 1 THEN [attrsDefault EXCEPT !["POSTED_BY"] = Token(postedBy)]
                 ELSE attrsDefault
        email == SplitOn(tokens.v[6].l, {"@"}, <<>>)
        domain == [i \in 1..Len(email[2]) |-> Lower(email[2][i])]
    IN IF IsNone(logo) \/ Val(logo) = <<>> THEN Return(attrsDefault)
       ELSE IF tokens.raised THEN tokens
       ELSE IF n >= 1 /\ tokens.v[1].t = "list" THEN Raise("AttributeError")
       ELSE IF n < 6 THEN Return(named)
       ELSE IF tokens.v[6].t = "list" THEN Raise("AttributeError")
       ELSE IF Len(email) < 2 THEN Return(named)
       ELSE Return([named EXCEPT !["ISS_AGENCY"] = IssAgency(postedBy, domain)])

ParseLogo == Decode("parseLogo", parseLogo(Some(input)))

\* Logo fields of the legacy records, '{ral} {} {} {} {} ral@rl.ac.uk' and the
\* like: the poster's display name, four further tokens and the e-mail
\* address; fields cut short, with a nested list for a token, with a stray
\* closing brace, and with a second '@'.
LogoNames ==
    {<<"r", "a", "l">>, <<"R", "A", "L">>, <<"b", "o", "b">>, <<"r", "a", "l", " ", "x">>,
     <<"a", " ", "r", "a", "l">>}
LogoDomains ==
    {<<"n", "r", "a", "o", ".", "e", "d", "u">>,
     <<"N", "R", "A", "O", ".", "E", "D", "U">>,
     <<"n", "r", "c", "-", "c", "n", "r", "c", ".", "g", "c", ".", "c", "a">>,
     <<"n", "r", "c", ".", "c", "a">>, <<"e", "s", "o", ".", "o", "r", "g">>,
     <<"e", "s", "o", "x", "o", "r", "g">>,
     <<"e", "s", "o", ".", "o", "r", "g", ".", "c", "l">>,
     <<"r", "l", ".", "a", "c", ".", "u", "k">>, <<"o", "a", "n", ".", "e", "s">>,
     <<"n", "a", "o", ".", "a", "c", ".", "j", "p">>,
     <<"a", "s", "i", "a", "a", ".", "s", "i", "n", "i", "c", "a", ".", "e", "d", "u", ".", "t", "w">>,
     <<"a", "l", "m", "a", ".", "c", "l">>,
     <<"g", "m", "a", "i", "l", ".", "c", "o", "m">>,
     <<"n", "r", "a", "o", ".", "e", "s">>, <<>>}
LogoField(name, last) ==
    <<"{">> \o name \o <<"}", " ", "{", "}", " ", "{", "x", "}", " ", "{", "}",
                         " ", "{", "}", " ">> \o last
LogoFields ==
    {LogoField(n, <<"u", "@">> \o d) : n \in LogoNames, d \in LogoDomains}
    \cup {LogoField(n, <<"u">>) : n \in LogoNames}
    \cup {LogoField(n, <<"u", "@", "b", ".", "c", "@">> \o d) :
              n \in LogoNames, d \in {NRAOEDU, ALMACL}}
    \cup {LogoField(n, <<"{", "{", "u", "}", " ", "{", "@", "}", "}">>) : n \in LogoNames}
    \cup {<<"{">> \o n \o <<"}", " ", "u", "@">> \o ALMACL : n \in LogoNames}
    \cup {<<"{", "{", "a", "}", " ", "{", "b", "}", "}">>, StrayClose,
          <<"u", "@">> \o ALMACL}

InitLogo ==
    /\ lastId = 0
    /\ store = [k \in {0} |-> RootNode]
    /\ nameIndex = [n \in {} |-> 0]
    /\ attrs = [r \in {DefaultAttrs} |-> [OWNER |-> None]]
    /\ exc = ""
    /\ dirty = FALSE
    /\ adopts = 0
    /\ call = NoCall
    /\ events = <<>>
    /\ pos = 0
    /\ docOwner = None
    /\ treeTop = None
    /\ scopeKey = None
    /\ log = <<>>
    /\ input \in LogoFields
    /\ tpc = "idle"
    /\ tpos = 1
    /\ result = <<>>
    /\ current = Some(<<>>)
    /\ output = <<>>
    /\ values = <<>>
    /\ vals = <<>>
    /\ attrsOut = EmptyDict
    /\ dpc = "idle"
    /\ lastDocID = None
    /\ phase = "idle"
    /\ forumNo = 0
    /\ forumOwner = None
    /\ sheet = <<>>
    /\ rows = <<>>
    /\ forums = <<>>
    /\ MySQLConfig = NoMySQL
    /\ queryResult = <<>>
    /\ forumRows = None
    /\ rowNo = 0
    /\ lpc = "idle"

NextLogo == ParseLogo

SpecLogo == InitLogo /\ [][NextLogo]_vars

\* ---------------------------------------------------------------- workflow
\* The lookup table of parseWorkflow.
WorkflowLookup ==
    [k \in {"r.in Technical Review", "r.Approved Document"} |->
        CASE k = "r.in Technical Review" -> "REVIEWED_BY"
          [] k = "r.Approved Document" -> "APPROVED_BY"]

\* re.match('^a\.To', key)
IsReleaseKey(key) == MatchFrom(key, 1, Lits(<<"a", ".", "T", "o">>), 1, FALSE)

\* str(x) of a str or a ParserNode: the str itself, the repr of the list.
RECURSIVE Repr(_), ReprAll(_, _)
Repr(item) ==
    IF item.t = "str" THEN <<"'">> \o item.l \o <<"'">>
    ELSE <<"[">> \o ReprAll(item.l, 1) \o <<"]">>
ReprAll(items, i) ==
    IF i > Len(items) THEN <<>>
    ELSE IF i = Len(items) THEN Repr(items[i])
    ELSE Repr(items[i]) \o <<",", " ">> \o ReprAll(items, i + 1)
StrOf(item) == IF item.t = "str" THEN item.l ELSE Repr(item)

\* The text `releasedBy += str(value[1])` adds, IndexError passing to
\* `releasedBy += value`: value[1] is the second item of a list and the second
\* character of a str; a str shorter than two characters is added whole, and
\* a list that short cannot be added to a str.
ReleasedUser(value) ==
    IF value.t = "list"
    THEN IF Len(value.l) >= 2 THEN Return(StrOf(value.l[2])) ELSE Raise("TypeError")
    ELSE IF Len(value.l) >= 2 THEN Return(<<value.l[2]>>) ELSE Return(value.l)

\* parseWorkflow's while loop over items from its i-th entry on: a key
\* without a value ends the loop, a key that is a list makes re.match raise.
RECURSIVE ReleasedBy(_, _, _)
ReleasedBy(items, i, releasedBy) ==
    IF i + 1 > Len(items) THEN Return(releasedBy)
    ELSE IF items[i].t = "list" THEN Raise("TypeError")
    ELSE IF ~IsReleaseKey(items[i].l) THEN ReleasedBy(items, i + 2, releasedBy)
    ELSE LET user == ReleasedUser(items[i + 1])
             sep == IF releasedBy # <<>> THEN <<" ">> ELSE <<>>
         IN IF user.raised THEN user
            ELSE ReleasedBy(items, i + 2, releasedBy \o sep \o user.v)

\* parseWorkflow(workflowData, workflowState), each None or a str.
parseWorkflow(workflowData, workflowState) ==
    LET attrsDefault == [k \in {"DOC_STATUS_WF", "REVIEWED_BY", "APPROVED_BY",
                                "RELEASED_BY"} |-> EmptyStr]
        stated == IF IsNone(workflowState) \/ Val(workflowState) = <<>> THEN attrsDefault
                  ELSE [attrsDefault EXCEPT !["DOC_STATUS_WF"] = Token(Val(workflowState))]
        items == splitOnBracketsOrSpace(workflowData)
        pairs == parsePairs(items.v, WorkflowLookup)
        releasedBy == ReleasedBy(items.v, 1, <<>>)
    IN IF IsNone(workflowData) \/ Val(workflowData) = <<>> THEN Return(stated)
       ELSE IF items.raised THEN items
       ELSE IF pairs.raised THEN pairs
       ELSE IF releasedBy.raised THEN releasedBy
       ELSE IF releasedBy.v = <<>> THEN Return(Merge(stated, pairs.v))
       ELSE Return([Merge(stated, pairs.v) EXCEPT !["RELEASED_BY"] = Token(releasedBy.v)])

\* The workflow states of the legacy records: None and 'Approved'.
WorkflowStates == {None, Some(<<"A", "p", "p", "r", "o", "v", "e", "d">>)}

ParseWorkflow ==
    \E ws \in WorkflowStates : Decode("parseWorkflow", parseWorkflow(Some(input), ws))

\* Workflow data of the legacy records: up to MaxWorkflowPairs key and value
\* pairs such as '{a.To} {{s} bob}', with the keys 'a.To', 'a.Tox', 'b.To'
\* and 'r.in Technical Review' and the values 'bob', 'x', '', the nested
\* groups {{s} bob} and {{s} {u v}}; a key without a value, a key that is a
\* nested group, and a stray closing brace.
MaxWorkflowPairs == 2
WorkflowKeys ==
    {<<"{", "a", ".", "T", "o", "}">>, <<"a", ".", "T", "o", "x">>,
     <<"b", ".", "T", "o">>,
     <<"{", "r", ".", "i", "n", " ", "T", "e", "c", "h", "n", "i", "c", "a", "l", " ",
       "R", "e", "v", "i", "e", "w", "}">>}
WorkflowValues ==
    {<<"b", "o", "b">>, <<"x">>, <<"{", "}">>,
     <<"{", "{", "s", "}", " ", "b", "o", "b", "}">>,
     <<"{", "{", "s", "}", " ", "{", "u", " ", "v", "}", "}">>}
RECURSIVE WorkflowPairs(_)
WorkflowPairs(n) ==
    IF n = 0 THEN {<<>>}
    ELSE WorkflowPairs(n - 1) \cup
         {(IF p = <<>> THEN <<>> ELSE p \o <<" ">>) \o k \o <<" ">> \o v :
             p \in WorkflowPairs(n - 1), k \in WorkflowKeys, v \in WorkflowValues}
WorkflowFields ==
    WorkflowPairs(MaxWorkflowPairs)
    \cup {<<"a", ".", "T", "o">>, NestedKey, StrayClose,
          <<"{", "a", ".", "T", "o", "}", " ", "x", " ", "a", ".", "T", "o">>}

InitWorkflow ==
    /\ lastId = 0
    /\ store = [k \in {0} |-> RootNode]
    /\ nameIndex = [n \in {} |-> 0]
    /\ attrs = [r \in {DefaultAttrs} |-> [OWNER |-> None]]
    /\ exc = ""
    /\ dirty = FALSE
    /\ adopts = 0
    /\ call = NoCall
    /\ events = <<>>
    /\ pos = 0
    /\ docOwner = None
    /\ treeTop = None
    /\ scopeKey = None
    /\ log = <<>>
    /\ input \in WorkflowFields
    /\ tpc = "idle"
    /\ tpos = 1
    /\ result = <<>>
    /\ current = Some(<<>>)
    /\ output = <<>>
    /\ values = <<>>
    /\ vals = <<>>
    /\ attrsOut = EmptyDict
    /\ dpc = "idle"
    /\ lastDocID = None
    /\ phase = "idle"
    /\ forumNo = 0
    /\ forumOwner = None
    /\ sheet = <<>>
    /\ rows = <<>>
    /\ forums = <<>>
    /\ MySQLConfig = NoMySQL
    /\ queryResult = <<>>
    /\ forumRows = None
    /\ rowNo = 0
    /\ lpc = "idle"

NextWorkflow == ParseWorkflow

SpecWorkflow == InitWorkflow /\ [][NextWorkflow]_vars

\* ---------------------------------------------------------------- loadAllForums
\* Largest number of rows the forum query returns.
MaxForumRows == 3

\* A row of the forum query: FORUMNAME, CLASS, TITLE, PARENT, TOPDOCID and
\* TABLEPREFIX, and the rank of its title in the ORDER BY of the query.
ForumRow(name, class, title, rank, parent, topDocId, tablePrefix) ==
    [FORUMNAME |-> name, CLASS |-> class, TITLE |-> title, rank |-> rank,
     PARENT |-> parent, TOPDOCID |-> topDocId, TABLEPREFIX |-> tablePrefix]
ForumSourceRows ==
    {ForumRow("F1", "summit", Some(<<" ", "a", " ">>), 1, PyNone, None, None),
     ForumRow("F2", "docshare", Some(<<"b">>), 2, PyStr("F1"), Some("1"), Some("t2")),
     ForumRow("F3", "docshare", Some(<<"b">>), 2, PyStr("F9"), Some("1"), Some("t3")),
     ForumRow("F1", "docshare", None, 0, PyStr("F2"), Some("1"), Some("t1"))}
\* The query results: up to MaxForumRows rows in the order of their titles.
RECURSIVE RowSeqs(_)
RowSeqs(n) ==
    IF n = 0 THEN {<<>>}
    ELSE RowSeqs(n - 1) \cup
         {Append(rs, r) : rs \in {x \in RowSeqs(n - 1) : Len(x) = n - 1},
                          r \in ForumSourceRows}
QueryResults ==
    {rs \in RowSeqs(MaxForumRows) :
        \A i \in 1..(Len(rs) - 1) : rs[i].rank <= rs[i + 1].rank}
\* The configurations of the local MySQL server.
MySQLConfigs ==
    [enable : {0, 1}, local_tables : SUBSET {"ALMA__PROPS", "TABLE_MAP"}]

\* The condition of loadAllForums' if: the forum tables are cached locally.
UseMySQL(config) ==
    /\ config.enable # 0
    /\ "ALMA__PROPS" \in config.local_tables
    /\ "TABLE_MAP" \in config.local_tables

\* loadAllForums' local `rows` after the if: bound to the rows of fetchall()
\* on the MySQL branch; the Oracle branch drops what fetchall() returns.
Fetched(config, fetched) == IF UseMySQL(config) THEN Some(fetched) ELSE None

\* The attrs dict loadAllForums builds for a row.
ForumAttrs(row) ==
    [OWNER |-> None,
     TITLE |-> IF IsNone(row.TITLE) THEN EmptyStr ELSE Token(Strip(Val(row.TITLE))),
     TOPDOCID |-> IF row.CLASS = "docshare" THEN row.TOPDOCID ELSE None,
     TABLEPREFIX |-> IF row.CLASS = "docshare" THEN row.TABLEPREFIX ELSE None]

\* loadAllForums is called: reset(), then the query on the selected driver.
LoadAllForums ==
    /\ lpc = "query"
    /\ lastId' = 0
    /\ store' = [k \in {0} |-> RootNode]
    /\ nameIndex' = [n \in {} |-> 0]
    /\ forumRows' = Fetched(MySQLConfig, queryResult)
    /\ rowNo' = 0
    /\ lpc' = "loop"
    /\ UNCHANGED <<attrs, exc, dirty, adopts, travVars, walkVars, tokVars, decVars,
                   migVars, MySQLConfig, queryResult>>

\* `for row in rows` with rows unbound.
LoadForumsUnbound ==
    /\ lpc = "loop"
    /\ IsNone(forumRows)
    /\ exc' = "UnboundLocalError"
    /\ lpc' = "raised"
    /\ UNCHANGED <<treeVars, travVars, walkVars, tokVars, decVars, migVars,
                   MySQLConfig, queryResult, forumRows, rowNo>>

\* One pass of the for loop: forums.insert(row[FORUMNAME], attrs, row[PARENT]).
LoadForumRow ==
    /\ lpc = "loop"
    /\ ~IsNone(forumRows)
    /\ rowNo < Len(Val(forumRows))
    /\ LET row == Val(forumRows)[rowNo + 1]
           key == lastId + 1
       IN /\ lastId' = key
          /\ store' = [k \in DOMAIN store \cup {key} |->
                         IF k = key THEN NewNode(PyStr(row.FORUMNAME), key, key, row.PARENT)
                         ELSE store[k]]
          /\ nameIndex' = BindName(nameIndex, row.FORUMNAME, key)
          /\ attrs' = [r \in DOMAIN attrs \cup {key} |->
                         IF r = key THEN ForumAttrs(row) ELSE attrs[r]]
    /\ dirty' = TRUE
    /\ rowNo' = rowNo + 1
    /\ UNCHANGED <<exc, adopts, travVars, walkVars, tokVars, decVars, migVars,
                   MySQLConfig, queryResult, forumRows, lpc>>

\* The loop is over: forums.index().
LoadForumsIndex ==
    /\ lpc = "loop"
    /\ ~IsNone(forumRows)
    /\ rowNo = Len(Val(forumRows))
    /\ store' = IndexStore(store, nameIndex)
    /\ exc' = IF IndexRaises(store, nameIndex) THEN "RecursionError" ELSE exc
    /\ lpc' = IF IndexRaises(store, nameIndex) THEN "raised" ELSE "done"
    /\ dirty' = FALSE
    /\ UNCHANGED <<lastId, nameIndex, attrs, adopts, travVars, walkVars, tokVars,
                   decVars, migVars, MySQLConfig, queryResult, forumRows, rowNo>>

InitForums ==
    /\ lastId = 0
    /\ store = [k \in {0} |-> RootNode]
    /\ nameIndex = [n \in {} |-> 0]
    /\ attrs = [r \in {DefaultAttrs} |-> [OWNER |-> None]]
    /\ exc = ""
    /\ dirty = FALSE
    /\ adopts = 0
    /\ call = NoCall
    /\ events = <<>>
    /\ pos = 0
    /\ docOwner = None
    /\ treeTop = None
    /\ scopeKey = None
    /\ log = <<>>
    /\ input = <<>>
    /\ tpc = "idle"
    /\ tpos = 1
    /\ result = <<>>
    /\ current = Some(<<>>)
    /\ output = <<>>
    /\ values = <<>>
    /\ vals = <<>>
    /\ attrsOut = <<>>
    /\ dpc = "idle"
    /\ lastDocID = None
    /\ phase = "idle"
    /\ forumNo = 0
    /\ forumOwner = None
    /\ sheet = <<>>
    /\ rows = <<>>
    /\ forums = <<>>
    /\ MySQLConfig \in MySQLConfigs
    /\ queryResult \in QueryResults
    /\ forumRows = None
    /\ rowNo = 0
    /\ lpc = "query"

NextForums ==
    \/ LoadAllForums
    \/ LoadForumsUnbound
    \/ LoadForumRow
    \/ LoadForumsIndex

SpecForums == InitForums /\ [][NextForums]_vars

\* ---------------------------------------------------------------- pipeline
\* The pipeline readForumsXLSX / loadDocshares, writeDocumentsXLSX,
\* readDocumentsXLSX, writeMigrationXLSX.  The tree variables hold the docshare
\* of forum forumNo, the one being loaded, marked or walked; `forums` holds the
\* forums read before it.  Columns that no decoder of the row builder reads
\* (DOCUMENTTYPE, DOCNUMBER, CREATEDBY, ..., KEYWORDS, LOGO, WORKFLOWDATA,
\* ABSTRACT, ISWORKFLOW) are NULL in every row.

\* The document ids of the query results, in the order of ORDER BY d.DOCID.
DocIds == <<"1", "2", "3">>
IdRank(id) == CHOOSE i \in 1..Len(DocIds) : DocIds[i] = id

\* A row of the query result; a raw column is None (NULL) or Some(characters).
Row(id, parent, content, title, upload, te, de) ==
    [DOCID |-> id, PARENTID |-> parent, DOCCONTENT |-> content, TITLE |-> title,
     UPLOADFILEINFO |-> upload, TE_VALUES |-> te, DE_VALUES |-> de]

FrameContent(id) == <<"application/x-wgw-id", " ", id>>
FileNameOnly == <<"de_ele10279", " ", "g", ".", "doc">>

\* The rows the query results are made of: a folder titled 'None' and one
\* titled 'Draft'; a document
\* with TE and DE authors and an upload; an uploaded file below document 1;
\* the same id again with other attributes, as the abstractText join gives;
\* a document with a DE file name and no upload; one whose DE authors are
\* nested groups; documents with a malformed upload field and with a malformed
\* TE field; folder frames for document 2 and for the absent document 9; an
\* uploaded file below document 2; a folder frame with the smallest id for
\* document 2, and document 2 as a folder frame for document 1.
SourceRows ==
    {Row("1", PyNone, None, Some(<<"None">>), None, None, None),
     Row("1", PyNone, None, Some(<<"Draft">>), None, None, None),
     Row("1", PyNone, None, Some(<<"Draft">>), Some(UploadExample),
         Some(TE_Example), Some(DE_Example)),
     Row("2", PyStr("1"), None, Some(<<"Draft">>), Some(UploadExample), None, None),
     Row("2", PyStr("1"), None, None, None, Some(TE_Example), Some(FileNameOnly)),
     Row("2", PyNone, None, None, Some(UploadExample), None, Some(NestedAuthors)),
     Row("3", PyStr("1"), None, None, Some(StrayClose), None, None),
     Row("3", PyNone, None, None, None, Some(StrayClose), None),
     Row("3", PyStr("1"), Some(FrameContent("2")), Some(<<"Draft">>), None, None, None),
     Row("3", PyNone, Some(FrameContent("9")), None, None, None, None),
     Row("3", PyStr("2"), None, None, Some(UploadExample), Some(TE_Example), None),
     Row("1", PyNone, Some(FrameContent("2")), Some(<<"Draft">>), None, None, None),
     Row("2", PyStr("1"), Some(FrameContent("1")), None, None, None, None)}

\* title = row[TITLE].strip() if row[TITLE] else ''; a title 'none' in any
\* case becomes ''.  (No generated title holds a character of
\* ILLEGAL_CHARACTERS_RE.)
TitleOf(title) ==
    IF IsNone(title) \/ Val(title) = <<>> THEN EmptyStr
    ELSE LET t == Strip(Val(title))
         IN IF Join([i \in 1..Len(t) |-> Lower(t[i])]) = "none" THEN EmptyStr
            ELSE Token(t)

\* RowAttrs with the merges left-biased: an entry already there is kept.
RowAttrsLeftBiased(row) ==
    LET base == [OWNER |-> None, DOCCONTENT |-> row.DOCCONTENT,
                 PARENTID |-> row.PARENTID, TITLE |-> TitleOf(row.TITLE),
                 UPLOADFILEINFO |-> row.UPLOADFILEINFO, FOLDERFRAME |-> None]
        isFrame == ~IsNone(row.DOCCONTENT) /\ Val(row.DOCCONTENT) # <<>>
                   /\ Val(row.DOCCONTENT)[1] = "application/x-wgw-id"
        words == Words(Val(row.DOCCONTENT))
        te == parseTE_Values(row.TE_VALUES)
        de == parseDE_Values(row.DE_VALUES)
    IN IF isFrame /\ Len(words) < 2 THEN Raise("IndexError")
       ELSE IF te.raised THEN te
       ELSE IF de.raised THEN de
       ELSE Return(Merge(de.v, Merge(te.v,
                IF isFrame THEN [base EXCEPT !.FOLDERFRAME = Some(Join(words[2]))]
                ELSE base)))

\* The attrs dict __loadDocshare builds for a row: the columns, FOLDERFRAME
\* for a folder frame, then the outputs of parseTE_Values and parseDE_Values
\* merged in, each overriding what is there.  OWNER |-> None stands for the
\* absent key.
RowAttrs(row) ==
    LET base == [OWNER |-> None, DOCCONTENT |-> row.DOCCONTENT,
                 PARENTID |-> row.PARENTID, TITLE |-> TitleOf(row.TITLE),
                 UPLOADFILEINFO |-> row.UPLOADFILEINFO, FOLDERFRAME |-> None]
        isFrame == ~IsNone(row.DOCCONTENT) /\ Val(row.DOCCONTENT) # <<>>
                   /\ Val(row.DOCCONTENT)[1] = "application/x-wgw-id"
        words == Words(Val(row.DOCCONTENT))
        te == parseTE_Values(row.TE_VALUES)
        de == parseDE_Values(row.DE_VALUES)
    IN IF isFrame /\ Len(words) < 2 THEN Raise("IndexError")
       ELSE IF te.raised THEN te
       ELSE IF de.raised THEN de
       ELSE Return(Merge(Merge(
                IF isFrame THEN [base EXCEPT !.FOLDERFRAME = Some(Join(words[2]))]
                ELSE base, te.v), de.v))

\* The forum of the docshare held by the tree variables, as kept in self.forums.
ThisForum ==
    [OWNER |-> forumOwner,
     docshare |-> [lastId |-> lastId, store |-> store, nameIndex |-> nameIndex,
                   attrs |-> attrs]]

\* The documents of the docshares loaded so far, and those of them with OWNER.
RECURSIVE DocsLoaded(_, _)
DocsLoaded(fs, i) ==
    IF i > Len(fs) THEN 0 ELSE fs[i].docshare.lastId + DocsLoaded(fs, i + 1)
Marked(st, at) == {k \in Keys(st) : ~IsNone(at[st[k].attrs].OWNER)}
RECURSIVE DocsMarked(_, _)
DocsMarked(fs, i) ==
    IF i > Len(fs) THEN 0
    ELSE Cardinality(Marked(fs[i].docshare.store, fs[i].docshare.attrs))
         + DocsMarked(fs, i + 1)

\* The next forum's docshare is loaded, by loadDocshares for a forum that
\* readForumsXLSX marked with an OWNER or by readDocumentsXLSX for the forum of
\* a sheet: __loadDocshare up to its for loop, on a new EDMTree.
LoadDocshare ==
    /\ phase \in {"idle", "marks"}
    /\ forumNo < MaxForums
    /\ forums' = IF phase = "marks" THEN Append(forums, ThisForum) ELSE forums
    /\ forumNo' = forumNo + 1
    /\ forumOwner' \in {None, Some("alice")}
    /\ lastId' = 0
    /\ store' = [k \in {0} |-> RootNode]
    /\ nameIndex' = [n \in {} |-> 0]
    /\ attrs' = [r \in {DefaultAttrs} |-> [OWNER |-> None]]
    /\ dirty' = FALSE
    /\ call' = NoCall
    /\ events' = <<>>
    /\ lastDocID' = None
    /\ rows' = <<>>
    /\ phase' = "rows"
    /\ UNCHANGED <<loadVars, exc, adopts, walkVars, tokVars, decVars, sheet>>

\* SkipsRow with no row skipped.
SkipsRowNever(last, id) == FALSE

\* `lastDocID == row[DOCID]`: the row repeats the id of the row before it.
SkipsRow(last, id) == last = Some(id)

\* __loadDocshare, one pass of `for row in rows`: the attrs dict is built, the
\* node is inserted unless the row's id is lastDocID, lastDocID is set; an
\* exception of a decoder ends the load.
LoadDocRow ==
    /\ phase = "rows"
    /\ Len(rows) + DocsLoaded(forums, 1) < MaxRows
    /\ \E row \in SourceRows :
         /\ IF IsNone(lastDocID) THEN TRUE
            ELSE IdRank(row.DOCID) >= IdRank(Val(lastDocID))
         /\ rows' = Append(rows, row)
         /\ LET made == RowAttrs(row)
                key == lastId + 1
            IN IF made.raised
               THEN /\ exc' = made.exc
                    /\ phase' = "raised"
                    /\ UNCHANGED <<lastId, store, nameIndex, attrs, dirty, lastDocID>>
               ELSE /\ IF ~SkipsRow(lastDocID, row.DOCID)
                       THEN /\ lastId' = key
                            /\ store' = [k \in DOMAIN store \cup {key} |->
                                           IF k = key
                                           THEN NewNode(PyStr(row.DOCID), key, key,
                                                        row.PARENTID)
                                           ELSE store[k]]
                            /\ nameIndex' = BindName(nameIndex, row.DOCID, key)
                            /\ attrs' = [r \in DOMAIN attrs \cup {key} |->
                                           IF r = key THEN made.v ELSE attrs[r]]
                            /\ dirty' = TRUE
                       ELSE UNCHANGED <<lastId, store, nameIndex, attrs, dirty>>
                    /\ lastDocID' = Some(row.DOCID)
                    /\ UNCHANGED <<exc, phase>>
    /\ UNCHANGED <<loadVars, adopts, travVars, walkVars, tokVars, decVars, forumNo, forumOwner,
                   sheet, forums>>

\* FolderFrames without the adopt: PARENTID and TITLE of the target are set,
\* its parent name is left as inserted.
RECURSIVE FolderFramesNoAdopt(_, _, _, _)
FolderFramesNoAdopt(st, ni, at, i) ==
    IF i \notin DOMAIN st THEN [raised |-> FALSE, exc |-> "", store |-> st, attrs |-> at]
    ELSE LET childName == at[st[i].attrs].FOLDERFRAME
             child == Find(ni, Val(childName))
             at1 == [at EXCEPT ![st[child].attrs].PARENTID = PyStr(st[i].name),
                               ![st[child].attrs].TITLE = EmptyStr]
         IN IF IsNone(childName) \/ Val(childName) = ""
            THEN FolderFramesNoAdopt(st, ni, at, i + 1)
            ELSE IF child = 0
                 THEN [raised |-> TRUE, exc |-> "TypeError", store |-> st, attrs |-> at]
            ELSE FolderFramesNoAdopt(st, ni, at1, i + 1)

\* __loadDocshare's loop over insertionOrder() from key i on: the target of a
\* FOLDERFRAME is looked up by name, its PARENTID and TITLE are set and it is
\* adopted by the frame; a target that find() does not return is None, and
\* child['attrs'] raises TypeError.
RECURSIVE FolderFrames(_, _, _, _)
FolderFrames(st, ni, at, i) ==
    IF i \notin DOMAIN st THEN [raised |-> FALSE, exc |-> "", store |-> st, attrs |-> at]
    ELSE LET childName == at[st[i].attrs].FOLDERFRAME
             child == Find(ni, Val(childName))
             at1 == [at EXCEPT ![st[child].attrs].PARENTID = PyStr(st[i].name),
                               ![st[child].attrs].TITLE = EmptyStr]
         IN IF IsNone(childName) \/ Val(childName) = ""
            THEN FolderFrames(st, ni, at, i + 1)
            ELSE IF child = 0
                 THEN [raised |-> TRUE, exc |-> "TypeError", store |-> st, attrs |-> at]
            ELSE IF AdoptRaises(st, ni, child)
                 THEN [raised |-> TRUE, exc |-> "TypeError", store |-> st, attrs |-> at1]
            ELSE FolderFrames([st EXCEPT ![child].pname = st[i].name], ni, at1, i + 1)

\* __loadDocshare after its for loop: the folder frames adopt their targets
\* and the docshare is indexed; an exception is re-raised.
LoadDocshareEnd ==
    /\ phase = "rows"
    /\ LET ff == FolderFrames(store, nameIndex, attrs, 1)
       IN /\ attrs' = ff.attrs
          /\ IF ff.raised
             THEN /\ store' = ff.store
                  /\ exc' = ff.exc
                  /\ phase' = "raised"
                  /\ dirty' = dirty
             ELSE /\ store' = IndexStore(ff.store, nameIndex)
                  /\ exc' = IF IndexRaises(ff.store, nameIndex) THEN "RecursionError"
                            ELSE exc
                  /\ phase' = IF IndexRaises(ff.store, nameIndex) THEN "raised"
                              ELSE "marks"
                  /\ dirty' = FALSE
    /\ UNCHANGED <<loadVars, lastId, nameIndex, adopts, travVars, walkVars, tokVars, decVars,
                   lastDocID, forumNo, forumOwner, sheet, rows, forums>>

\* dict.get(key) truthy, for a raw column (None or Some(characters)) and for a
\* decoded value; a key the dict does not hold gives None.
HasRaw(d, k) == k \in DOMAIN d /\ ~IsNone(d[k]) /\ Val(d[k]) # <<>>
HasValue(d, k) == k \in DOMAIN d /\ Truthy(d[k])

\* writeDocumentsXLSX with setForumOwner, its sheet read back unedited by
\* readDocumentsXLSX: __writeDocshare writes the forum's owner in the OWNER
\* cell of the rows of depth 0 that are not folder frames and None in the
\* others, leaving out the documents without title, upload and file name;
\* readDocumentsXLSX loads the docshare again and sets OWNER from the cells.
PrefilledOwner(st, at, key, owner) ==
    LET d == at[st[key].attrs]
    IN IF (HasValue(d, "TITLE") \/ HasRaw(d, "UPLOADFILEINFO")
           \/ HasValue(d, "FILE_NAME_DE"))
          /\ st[key].depth = Some(0) /\ IsNone(d.FOLDERFRAME)
       THEN owner ELSE None

WriteReadDocuments ==
    /\ phase = "marks"
    /\ ~IsNone(forumOwner)
    /\ attrs' = [r \in DOMAIN attrs |->
                   IF r \in Keys(store)
                   THEN [attrs[r] EXCEPT !.OWNER = PrefilledOwner(store, attrs, r, forumOwner)]
                   ELSE attrs[r]]
    /\ attrs' # attrs
    /\ UNCHANGED <<loadVars, lastId, store, nameIndex, exc, dirty, adopts, travVars, walkVars,
                   tokVars, decVars, migVars>>

\* readDocumentsXLSX, one sheet row with a truthy OWNER cell, as the user
\* filled it in: the document found by DOCID gets the OWNER, a DOCID not found
\* is skipped; the last owner of the sheet becomes the forum's OWNER.
DocNamed == {"1", "2", "9"}
SheetOwners == {"alice", StopOwner}
ReadDocumentRow ==
    /\ phase = "marks"
    /\ \E n \in DocNamed, o \in SheetOwners :
         LET key == Find(nameIndex, n)
         IN /\ attrs' = IF key # 0
                        THEN [attrs EXCEPT ![store[key].attrs].OWNER = Some(o)]
                        ELSE attrs
            /\ Cardinality(Marked(store, attrs')) + DocsMarked(forums, 1) <= MaxMarks
            /\ forumOwner' = Some(o)
    /\ UNCHANGED <<loadVars, lastId, store, nameIndex, exc, dirty, adopts, travVars, walkVars,
                   tokVars, decVars, lastDocID, phase, forumNo, sheet, rows, forums>>

\* parseWorkflow(None, None) and parseLogo(None): the defaults.
WorkflowDefaults ==
    [k \in {"DOC_STATUS_WF", "REVIEWED_BY", "APPROVED_BY", "RELEASED_BY"} |-> EmptyStr]
LogoDefaults == [k \in {"POSTED_BY", "ISS_AGENCY"} |-> EmptyStr]

\* parseTimeStamps on one value: a non-empty str is converted by
\* ParseTimeStamp to a datetime of that text, any other value is left alone.
TimeStampOf(v) ==
    IF v.t = "str" /\ v.l # <<>> THEN [t |-> "datetime", s |-> "", l |-> v.l] ELSE v

\* writeMigrationXLSX gives up on a row: exception e, the attrs as merged so far.
RowRaise(e, d) == [raised |-> TRUE, exc |-> e, attrs |-> d, row |-> <<>>]

\* Lines 736-764: the cells of the row appended to the sheet, read from the
\* merged attrs (ISWORKFLOW is NULL, so Reviewed By is AUTHORS and the status is
\* DOC_STATUS_TE).
RowCells(forum, name, d, almaDocNum, author0) ==
    [raised |-> FALSE, exc |-> "", attrs |-> d,
     row |-> [forum |-> forum, doc |-> name, Authors |-> d.AUTHORS,
              Editors |-> d.EDITORS, AlmaDocNum |-> almaDocNum,
              FileName |-> d.FILE_NAME, DocType |-> d.DOC_TYPE,
              OwnerName |-> author0, Version |-> d.DOC_VERSION,
              ReviewedBy |-> d.AUTHORS, DocStatus |-> d.DOC_STATUS_TE,
              FileType |-> d.FILE_TYPE, DatePosted |-> d.UPLOAD_DATETIME]]

\* Lines 729-732: the first author is the first word of a truthy AUTHORS;
\* a list has no split method.
FirstAuthor(forum, name, d, almaDocNum) ==
    IF ~Truthy(d.AUTHORS) THEN RowCells(forum, name, d, almaDocNum, EmptyStr)
    ELSE IF d.AUTHORS.t = "list" THEN RowRaise("AttributeError", d)
    ELSE RowCells(forum, name, d, almaDocNum, Token(Words(d.AUTHORS.l)[1]))

\* Lines 708-721: the output of parseFilename and of parseLogo(None) merged
\* in, UPLOAD_DATETIME converted.
WithFileType(forum, name, d, almaDocNum, type) ==
    IF type.raised THEN RowRaise(type.exc, d)
    ELSE FirstAuthor(forum, name,
                     [Merge(Merge(d, type.v), LogoDefaults)
                        EXCEPT !.UPLOAD_DATETIME = TimeStampOf(@)],
                     almaDocNum)

\* Lines 701-708: the output of parseUploadFileInfo merged in; FILE_NAME is
\* FILE_NAME_DE, or FILE_NAME_UL when that is falsy.
WithUpload(forum, name, d, almaDocNum, up) ==
    IF up.raised THEN RowRaise(up.exc, d)
    ELSE LET fileName == IF HasValue(d, "FILE_NAME_DE") THEN d.FILE_NAME_DE
                         ELSE up.v.FILE_NAME_UL
         IN WithFileType(forum, name, Put(Merge(d, up.v), "FILE_NAME", fileName),
                         almaDocNum, parseFilename(Some(fileName)))

\* Lines 692-700: the output of parseAlmaDocNum and of parseWorkflow(None,
\* None) merged in.
WithDocNum(forum, name, d, almaDocNum, num) ==
    IF num.raised THEN RowRaise(num.exc, d)
    ELSE WithUpload(forum, name, Merge(Merge(d, num.v), WorkflowDefaults), almaDocNum,
                    parseUploadFileInfo(d.UPLOADFILEINFO))

\* The row writeMigrationXLSX builds for a document with attrs d, lines
\* 683-764: the decoders run in turn, each output merged into the attrs; an
\* exception of a decoder, or of authors.split() on a list, ends the call.
RowOf(forum, name, d) ==
    LET almaDocNum == IF HasValue(d, "ALMA_DOC_NUMBER_TE") THEN d.ALMA_DOC_NUMBER_TE
                      ELSE d.ALMA_DOC_NUMBER_DE
    IN WithDocNum(forum, name, d, almaDocNum, parseAlmaDocNum(Some(almaDocNum)))

\* The row condition without its content test: every document of an owned
\* scope gets a row.
WritesRowOwned(owner, d) == ~IsNone(owner)

\* The row condition of line 682: an active owner, and a truthy
\* UPLOADFILEINFO or FILE_NAME_DE.
WritesRow(owner, d) ==
    ~IsNone(owner) /\ (HasRaw(d, "UPLOADFILEINFO") \/ HasValue(d, "FILE_NAME_DE"))

\* Stops with the sentinel taken for an owner like any other.
StopsNever(owner) == FALSE

\* `docOwner == 'STOP!'`: the break of the inner and of the outer loop.
Stops(owner) == owner = Some(StopOwner)

\* writeMigrationXLSX is called once the sheets are read: an empty sheet,
\* docOwner = None, treeTop = None, and the loop over the forums not begun.
WriteMigrationXLSX ==
    /\ phase = "marks"
    /\ forums' = Append(forums, ThisForum)
    /\ phase' = "write"
    /\ forumNo' = 0
    /\ sheet' = <<>>
    /\ docOwner' = None
    /\ treeTop' = None
    /\ scopeKey' = None
    /\ log' = <<>>
    /\ pos' = 1
    /\ events' = <<>>
    /\ call' = Call("writeMigrationXLSX", 0, FALSE, TRUE, "")
    /\ UNCHANGED <<loadVars, treeVars, exc, tokVars, decVars, lastDocID, forumOwner, rows>>

\* The forums of the outer loop after forum n: those with a truthy OWNER (every
\* forum read has a docshare).
ForumsAfter(n) == {i \in (n + 1)..Len(forums) : ~IsNone(forums[i].OWNER)}

\* The outer loop of writeMigrationXLSX moves on once the inner loop is over:
\* to the next forum with OWNER and docshare, whose docshare's depthFirst
\* generator is created, unless docOwner is 'STOP!'; with no forum left, or
\* at 'STOP!', the sheet is exported and written to outFile.
WriteNextForum ==
    /\ phase = "write"
    /\ pos > Len(events)
    /\ LET walked == IF forumNo = 0 THEN forums
                     ELSE [forums EXCEPT ![forumNo].docshare.attrs = attrs]
       IN /\ forums' = walked
          /\ IF ForumsAfter(forumNo) = {} \/ Stops(docOwner)
             THEN /\ phase' = "written"
                  /\ UNCHANGED <<treeVars, travVars, pos, forumNo, forumOwner>>
             ELSE LET next == CHOOSE i \in ForumsAfter(forumNo) :
                                 \A j \in ForumsAfter(forumNo) : i <= j
                      share == walked[next].docshare
                  IN /\ forumNo' = next
                     /\ forumOwner' = walked[next].OWNER
                     /\ lastId' = share.lastId
                     /\ store' = share.store
                     /\ nameIndex' = share.nameIndex
                     /\ attrs' = share.attrs
                     /\ events' = depthFirst(share.store, 0, FALSE, TRUE, 0)
                     /\ pos' = 1
                     /\ UNCHANGED <<phase, dirty, adopts, call>>
    /\ UNCHANGED <<loadVars, exc, docOwner, treeTop, scopeKey, log, tokVars, decVars, lastDocID,
                   sheet, rows>>

\* The inner loop's body on the document the generator yields: the scope
\* opening, the break at 'STOP!', and the row appended to the sheet when the
\* row condition holds; an exception ends writeMigrationXLSX before any file
\* is written.
WriteVisit ==
    /\ phase = "write"
    /\ pos <= Len(events)
    /\ events[pos].e = "yield"
    /\ LET key == events[pos].key
           d == attrs[store[key].attrs]
           after == LoopBody(docOwner, treeTop, store[key].name, d.OWNER)
           stop == Stops(after.docOwner)
           built == RowOf(forumNo, store[key].name, d)
       IN /\ docOwner' = after.docOwner
          /\ treeTop' = after.treeTop
          /\ scopeKey' = IF IsNone(docOwner) /\ ~IsNone(after.docOwner)
                         THEN Some(key) ELSE scopeKey
          /\ log' = Append(log, [forum |-> forumNo, key |-> key,
                                 name |-> store[key].name, owner |-> after.docOwner,
                                 upload |-> HasRaw(d, "UPLOADFILEINFO")])
          /\ IF stop \/ ~WritesRow(after.docOwner, d)
             THEN /\ pos' = IF stop THEN Len(events) + 1 ELSE pos + 1
                  /\ UNCHANGED <<attrs, sheet, exc, phase>>
             ELSE /\ attrs' = [attrs EXCEPT ![store[key].attrs] = built.attrs]
                  /\ sheet' = IF built.raised THEN sheet ELSE Append(sheet, built.row)
                  /\ exc' = built.exc
                  /\ phase' = IF built.raised THEN "raised" ELSE phase
                  /\ pos' = pos + 1
    /\ UNCHANGED <<loadVars, lastId, store, nameIndex, dirty, adopts, travVars, tokVars, decVars,
                   lastDocID, forumNo, forumOwner, rows, forums>>

\* The generator, resumed, calls doneHook for a finished subtree.
WriteDone ==
    /\ phase = "write"
    /\ pos <= Len(events)
    /\ events[pos].e = "done"
    /\ docOwner' = DoneHook(docOwner, treeTop, events[pos].name)
    /\ scopeKey' = IF scopeKey = Some(events[pos].key) THEN None ELSE scopeKey
    /\ pos' = pos + 1
    /\ UNCHANGED <<loadVars, treeVars, exc, travVars, treeTop, log, tokVars, decVars, migVars>>

NextMig ==
    \/ LoadDocshare
    \/ LoadDocRow
    \/ LoadDocshareEnd
    \/ WriteReadDocuments
    \/ ReadDocumentRow
    \/ WriteMigrationXLSX
    \/ WriteNextForum
    \/ WriteVisit
    \/ WriteDone

SpecMig == Init /\ [][NextMig]_vars

\* ---------------------------------------------------------------- claims
\* Node a is node m or one of its ancestors along the parent keys.
RECURSIVE Up(_, _, _, _)
Up(st, a, m, fuel) ==
    IF m = a THEN TRUE
    ELSE IF fuel = 0 \/ m = 0 \/ IsNone(st[m].parent) THEN FALSE
    ELSE Up(st, a, Val(st[m].parent), fuel - 1)

\* The nodes at or below node n.
Subtree(st, n) == {m \in DOMAIN st : Up(st, n, m, Cardinality(DOMAIN st))}

\* All real nodes hang below the synthetic root.
IsTree(st) == \A k \in Keys(st) : Up(st, 0, k, Cardinality(DOMAIN st))

\* The tree is freshly indexed and no call has raised.
Indexed == ~dirty /\ exc = ""

\* No two real nodes have the same name.
UniqueNames(st) == \A j, k \in Keys(st) : j # k => st[j].name # st[k].name

\* The marked nodes on the path from the synthetic root to node k.
MarkedAbove(k) ==
    {a \in Keys(store) : Up(store, a, k, lastId + 1) /\ ~IsNone(OwnerOf(store, attrs, a))}

\* The OWNER of the marked node closest to the root on the path to k.
OutermostOwner(k) ==
    IF MarkedAbove(k) = {} THEN None
    ELSE OwnerOf(store, attrs,
                 CHOOSE a \in MarkedAbove(k) :
                    \A b \in MarkedAbove(k) : Up(store, a, b, lastId + 1))

\* C1: in the owner walk over an indexed tree with unique names, the owner in
\* force at each visited node is the OWNER of the marked node closest to the
\* root on the path from the root to that node, and None when no node on that
\* path is marked.
C1_OutermostMarkOwns ==
    (call.op = "walk" /\ UniqueNames(store)) =>
        \A i \in 1..Len(log) : log[i].owner = OutermostOwner(log[i].key)

\* C1 witness: a finished walk over three uniquely named nodes in which a
\* marked node was visited under another node's different owner, and a later
\* node outside that scope was visited under a third node's owner.
C1_Witness ==
    /\ call.op = "walk"
    /\ pos > Len(events)
    /\ UniqueNames(store)
    /\ \E i, j \in 1..Len(log) :
          /\ i < j
          /\ ~IsNone(OwnerOf(store, attrs, log[i].key))
          /\ ~IsNone(log[i].owner)
          /\ log[i].owner # OwnerOf(store, attrs, log[i].key)
          /\ ~IsNone(log[j].owner)
          /\ log[j].owner # log[i].owner

\* C2 as stated: on any tree insert and index produce, duplicate names
\* included, the active owner stays set from the visit of the node that opened
\* the scope until that node's own subtree is done.
C2_ScopeStaysOpen ==
    (call.op = "walk" /\ ~IsNone(scopeKey)) => ~IsNone(docOwner)

\* C2 amended: on a tree whose node names are unique, the active owner stays
\* set from the visit of the node that opened the scope until that node's own
\* subtree is done.
C2_ScopeStaysOpenUnique ==
    (call.op = "walk" /\ UniqueNames(store) /\ ~IsNone(scopeKey)) => ~IsNone(docOwner)

\* C2 witness: with unique names, the done-hook has fired for a node below the
\* node that opened the scope, and the scope is still open.
C2_Witness ==
    /\ call.op = "walk"
    /\ UniqueNames(store)
    /\ ~IsNone(scopeKey)
    /\ ~IsNone(docOwner)
    /\ \E i \in 1..(pos - 1) :
          /\ events[i].e = "done"
          /\ events[i].key # Val(scopeKey)
          /\ Up(store, Val(scopeKey), events[i].key, lastId + 1)

\* Positions in `events` of the yields of node n, and of its done-hook calls.
YieldAt(n) == {i \in 1..Len(events) : events[i].e = "yield" /\ events[i].key = n}
DoneAt(n) == {i \in 1..Len(events) : events[i].e = "done" /\ events[i].key = n}

\* The last call was a depthFirst with a done-hook that returned.
DepthFirstReturned ==
    call.op = "depthFirst" /\ call.doneHook /\ ~Failed(events)

\* C3: in a depthFirst(k, postOrder, doneHook) that ran to its end, the hook is
\* called exactly once for each node of k's subtree, with that node's name,
\* after the node and all its descendants were yielded and before any later
\* yield of a node outside that subtree; in pre-order every node is yielded
\* after all its ancestors within the traversal. Both orders.
C3_HookNesting ==
    DepthFirstReturned =>
        /\ \A n \in Subtree(store, call.key) :
              /\ Cardinality(DoneAt(n)) = 1
              /\ \A d \in DoneAt(n) :
                    /\ events[d].name = store[n].name
                    /\ \A m \in Subtree(store, n) \ {0} : \E i \in YieldAt(m) : i < d
                    /\ \A j \in 1..Len(events) :
                          ( /\ events[j].e = "yield"
                            /\ events[j].key \notin Subtree(store, n)
                            /\ \E m \in Subtree(store, n) : \E i \in YieldAt(m) : i < j )
                          => d < j
        /\ ~call.postOrder =>
              \A n \in Subtree(store, call.key) \ {0} : \A i \in YieldAt(n) :
                 \A a \in Subtree(store, call.key) \ {0, n} :
                    Up(store, a, n, lastId + 1) => \E j \in YieldAt(a) : j < i

\* C3 witness: a post-order depthFirst with hook from a real node with at least
\* two descendants, in a tree that has a node outside that subtree, returned.
C3_Witness ==
    /\ DepthFirstReturned
    /\ call.postOrder
    /\ call.key # 0
    /\ Cardinality(Subtree(store, call.key)) >= 3
    /\ lastId = MaxNodes

\* C4: after index(), every real node has a depth equal to its parent's depth
\* plus one, and the synthetic root's kids are exactly the nodes whose resolved
\* parent is the synthetic root.
C4_DepthIsParentPlusOne ==
    Indexed =>
        /\ \A k \in Keys(store) :
              /\ ~IsNone(store[k].depth)
              /\ ~IsNone(store[k].parent)
              /\ ~IsNone(store[Val(store[k].parent)].depth)
              /\ Val(store[k].depth) = Val(store[Val(store[k].parent)].depth) + 1
        /\ \A k \in Keys(store) :
              InSeq(k, store[0].kids) <=> store[k].parent = Some(0)

\* C5: after index(), a node's parent is the node its parent name is bound to
\* in the name index, whichever was inserted first; a node whose parent name is
\* bound to no node is a kid of the synthetic root with depth 0; no insert and
\* no index raises.
C5_ParentResolution ==
    /\ ~dirty =>
          \A k \in Keys(store) :
             IF store[k].pname \in DOMAIN nameIndex
             THEN /\ store[k].parent = Some(nameIndex[store[k].pname])
                  /\ InSeq(k, store[nameIndex[store[k].pname]].kids)
             ELSE /\ store[k].parent = Some(0)
                  /\ InSeq(k, store[0].kids)
                  /\ store[k].depth = Some(0)
    /\ (call = NoCall) => exc = ""

\* C5 witness: an indexed tree with a node inserted before its parent and a
\* node whose parent name is bound to no node.
C5_Witness ==
    /\ Indexed
    /\ \E k \in Keys(store) : /\ store[k].pname \in DOMAIN nameIndex
                              /\ nameIndex[store[k].pname] > k
    /\ \E k \in Keys(store) : store[k].pname \notin DOMAIN nameIndex

\* The keys of the nodes inserted under a name.
KeysNamed(st, name) == {k \in Keys(st) : st[k].name = name}
Max(S) == CHOOSE x \in S : \A y \in S : y <= x

\* C6: find(name) is the node of the most recent insert of that name and None
\* for a name never inserted; every inserted node, an earlier one of a name
\* inserted twice included, stays in the store under its own key and is
\* yielded by insertionOrder.
C6_FindNewest ==
    /\ \A n \in Names \cup {"None"} :
          Find(nameIndex, n) =
             IF KeysNamed(store, n) = {} THEN 0 ELSE Max(KeysNamed(store, n))
    /\ Keys(store) = 1..lastId
    /\ \A k \in Keys(store) : store[k].key = k
    /\ \A k \in Keys(store) : InSeq(k, InsertionOrder(store))

\* C6 witness: a name was inserted twice and another name never.
C6_Witness ==
    /\ \E n \in Names : Cardinality(KeysNamed(store, n)) >= 2
    /\ \E n \in Names : KeysNamed(store, n) = {}

\* C7: an adopt called on an indexed tree does not raise and sets the node's
\* parent name to the new parent name.
C7_AdoptOnIndexedTree ==
    (call.op = "adopt" /\ call.indexed /\ IsTree(store)) =>
        /\ exc = ""
        /\ store[call.key].pname = call.name

\* C8: breadthFirst from the synthetic root of an indexed tree yields every
\* real node exactly once and no node before a node of smaller depth.
C8_LevelOrder ==
    (call.op = "breadthFirst" /\ call.key = 0 /\ IsTree(store)) =>
        /\ ~Failed(events)
        /\ \A k \in Keys(store) : Cardinality(YieldAt(k)) = 1
        /\ \A i, j \in 1..Len(events) :
              i < j => Val(store[events[i].key].depth) <= Val(store[events[j].key].depth)

\* C9: a depthFirst or breadthFirst started at any existing key of an indexed
\* tree returns after finitely many yields.
C9_TraversalReturns ==
    (call.op \in {"depthFirst", "breadthFirst"}) => ~Failed(events)

\* The output ['a', [['b'], ['c', 'd']], 'e'].
NestedSplit ==
    <<StrItem("a"),
      ListItem(<<ListItem(<<StrItem("b")>>), ListItem(<<StrItem("c"), StrItem("d")>>)>>),
      StrItem("e")>>

\* The output ['a', [['b'], ['c d']], 'e'].
NestedKept ==
    <<StrItem("a"),
      ListItem(<<ListItem(<<StrItem("b")>>), ListItem(<<StrItem("c d")>>)>>),
      StrItem("e")>>

\* C10 as stated: tokenizing 'a {{b} {c d}} e' yields
\* ['a', [['b'], ['c', 'd']], 'e'], the words of the inner group split.
C10_NestedWordsSplit ==
    (input = NestedExample /\ tpc # "scan") => (tpc = "done" /\ output = NestedSplit)

\* C10 amended: tokenizing 'a {{b} {c d}} e' yields ['a', [['b'], ['c d']], 'e']:
\* the nesting is kept and the inner group 'c d' stays one token.
C10_NestedGroupsKept ==
    (input = NestedExample /\ tpc # "scan") => (tpc = "done" /\ output = NestedKept)

\* C10 witness: the tokenizer has returned for the input 'a {{b} {c d}} e'.
C10_Witness == input = NestedExample /\ tpc = "done"

\* C11: splitOnBracketsOrSpace raises on no input, a dangling '{' or a stray
\* '}' at any position included: every call returns a token list.
C11_NeverRaises == tpc # "raised"

\* The braces of an input are matched and not nested.
RECURSIVE FlatFrom(_, _, _)
FlatFrom(cs, i, open) ==
    IF i > Len(cs) THEN ~open
    ELSE IF cs[i] = "{" THEN ~open /\ FlatFrom(cs, i + 1, TRUE)
    ELSE IF cs[i] = "}" THEN open /\ FlatFrom(cs, i + 1, FALSE)
    ELSE FlatFrom(cs, i + 1, open)
IsFlat(cs) == FlatFrom(cs, 1, FALSE)

\* The position of the first '}' at or after i, and the end of the run of
\* characters from i that are neither whitespace nor '{'.
RECURSIVE CloseAt(_, _), RunEnd(_, _)
CloseAt(cs, i) == IF cs[i] = "}" THEN i ELSE CloseAt(cs, i + 1)
RunEnd(cs, i) ==
    IF i > Len(cs) \/ IsSpace(cs[i]) \/ cs[i] = "{" THEN i ELSE RunEnd(cs, i + 1)

\* The tokens the flat rule gives: text outside braces split on runs of
\* whitespace, each brace group one token equal to its trimmed inner text.
RECURSIVE FlatTokens(_, _)
FlatTokens(cs, i) ==
    IF i > Len(cs) THEN <<>>
    ELSE IF IsSpace(cs[i]) THEN FlatTokens(cs, i + 1)
    ELSE IF cs[i] = "{"
         THEN <<StrItem(Join(Strip(SubSeq(cs, i + 1, CloseAt(cs, i) - 1))))>>
              \o FlatTokens(cs, CloseAt(cs, i) + 1)
    ELSE <<StrItem(Join(SubSeq(cs, i, RunEnd(cs, i) - 1)))>>
         \o FlatTokens(cs, RunEnd(cs, i))

\* C12: for an input whose braces are matched and not nested, the tokenizer
\* returns the text outside braces split on runs of whitespace, each brace
\* group as one token equal to its trimmed inner text with inner spaces kept,
\* and '' for an empty '{}'.
C12_FlatTokens ==
    (IsFlat(input) /\ tpc # "scan") =>
        (tpc = "done" /\ output = FlatTokens(input, 1))

\* The (key, value) pairs of a list: pair i is its tokens 2i-1 and 2i.
Pairs(vs) == 1..(Len(vs) \div 2)
PairKey(vs, i) == Join(vs[2 * i - 1].l)
PairValue(vs, i) == vs[2 * i]
\* The pairs whose key the lookup table maps to field f.
PairsOf(vs, lookup, f) ==
    {i \in Pairs(vs) : PairKey(vs, i) \in DOMAIN lookup /\ lookup[PairKey(vs, i)] = f}
Fields(lookup) == {lookup[k] : k \in DOMAIN lookup}

\* C14: parsePairs on a flat token list returns the dict that maps each
\* canonical name to the value of the last pair whose key is in the lookup
\* table and has no other entry, pairs with an unrecognized key and an odd
\* trailing token leaving no trace; it does not raise, every pass of its loop
\* shortens vals, and the caller's list stays as it was.
C14_PairsResult ==
    /\ [](/\ dpc # "raised"
          /\ dpc = "done" =>
                /\ DOMAIN attrsOut =
                      {f \in Fields(TE_Lookup) : PairsOf(values, TE_Lookup, f) # {}}
                /\ \A f \in DOMAIN attrsOut :
                      attrsOut[f] = PairValue(values, Max(PairsOf(values, TE_Lookup, f))))
    /\ [][/\ values' = values
          /\ (dpc = "loop" /\ dpc' = "loop") => Len(vals') < Len(vals)]_vars

\* C14 witness: parsePairs has returned for a list of odd length that has a
\* pair with an unrecognized key whose value is itself a key of the lookup
\* table, and a pair with a recognized key.
C14_Witness ==
    /\ dpc = "done"
    /\ Len(values) % 2 = 1
    /\ \E i \in Pairs(values) :
          /\ PairKey(values, i) \notin DOMAIN TE_Lookup
          /\ Join(PairValue(values, i).l) \in DOMAIN TE_Lookup
    /\ \E i \in Pairs(values) : PairKey(values, i) \in DOMAIN TE_Lookup

\* The canonical keys of each decoder.
CanonicalKeys(op) ==
    CASE op = "parseTE_Values" ->
            {"AUTHORS", "EDITORS", "ALMA_DOC_NUMBER_TE", "DOC_STATUS_TE"}
      [] op = "parseDE_Values" -> {"ALMA_DOC_NUMBER_DE", "FILE_NAME_DE", "AUTHORS"}
      [] op = "parseUploadFileInfo" -> {"FILE_NAME_UL", "UPLOAD_BY", "UPLOAD_DATETIME"}
      [] op = "parseAlmaDocNum" -> {"DOC_TYPE", "DOC_VERSION"}
      [] op = "parseFilename" -> {"FILE_TYPE"}
      [] OTHER -> {}

\* C13: a field decoder (parseTE_Values, parseDE_Values, parseUploadFileInfo,
\* parseAlmaDocNum, parseFilename) called on any raw input, empty, malformed
\* or with nested brace groups, does not raise and returns a dict with all of
\* its canonical keys.
C13_DecodersTotal ==
    /\ dpc # "raised"
    /\ dpc = "done" => DOMAIN attrsOut = CanonicalKeys(call.op)

\* The docshare of forum f as writeMigrationXLSX sees it, and the attrs of its
\* document `name`.
ShareOf(f) ==
    IF phase \in {"write", "raised"} /\ f = forumNo THEN ThisForum.docshare
    ELSE forums[f].docshare
DocAttrs(f, name) ==
    LET sh == ShareOf(f) IN sh.attrs[sh.store[Find(sh.nameIndex, name)].attrs]

\* The rows of the sheet written for document `name` of forum f.
RowsFor(f, name) == {j \in 1..Len(sheet) : sheet[j].forum = f /\ sheet[j].doc = name}

\* C15: every document writeMigrationXLSX has visited has exactly one row in
\* the sheet when an owner is active for it and its UPLOADFILEINFO is
\* non-empty, and no row otherwise.
C15_RowIffOwnedUpload ==
    \A i \in 1..Len(log) :
        Cardinality(RowsFor(log[i].forum, log[i].name)) =
            IF ~IsNone(log[i].owner) /\ log[i].upload THEN 1 ELSE 0

\* The first row of the query result with document id `id`.
FirstRowOf(id) ==
    rows[CHOOSE i \in 1..Len(rows) :
            rows[i].DOCID = id /\ \A j \in 1..(i - 1) : rows[j].DOCID # id]

\* While __loadDocshare reads rows, every node's AUTHORS is the AUTHORS output
\* of parseDE_Values for the node's row.
LoadedAuthors ==
    phase = "rows" =>
        \A k \in Keys(store) :
            attrs[store[k].attrs].AUTHORS =
                parseDE_Values(FirstRowOf(store[k].name).DE_VALUES).v.AUTHORS

\* In every row of the sheet the Authors cell is the AUTHORS of the document
\* (for the forum loaded last: the AUTHORS output of parseDE_Values for the
\* document's row).
AuthorsCell ==
    \A j \in 1..Len(sheet) :
        /\ sheet[j].Authors = DocAttrs(sheet[j].forum, sheet[j].doc).AUTHORS
        /\ sheet[j].forum = Len(forums) =>
             sheet[j].Authors = parseDE_Values(FirstRowOf(sheet[j].doc).DE_VALUES).v.AUTHORS

\* str.split()[0] of a str, '' for ''.
FirstWord(a) == IF a.l = <<>> THEN EmptyStr ELSE Token(Words(a.l)[1])

EndToEnd(mark) ==
    /\ phase = "written"
    /\ Len(forums) = 1
    /\ forums[1].OWNER = Some("alice")
    /\ LET sh == forums[1].docshare
       IN /\ sh.lastId = 2
          /\ sh.store[1].name = "1" /\ sh.store[1].parent = Some(0)
          /\ sh.store[2].name = "2" /\ sh.store[2].parent = Some(1)
          /\ ~HasRaw(sh.attrs[1], "UPLOADFILEINFO")
          /\ ~HasValue(sh.attrs[1], "FILE_NAME_DE")
          /\ sh.attrs[1].OWNER = mark
          /\ sh.attrs[2].UPLOADFILEINFO = Some(UploadExample)
          /\ sh.attrs[2].OWNER = None

\* Both documents were visited with the owner 'alice' active and the sheet
\* holds one row, for D2, with File Type 'Adobe PDF'.
OneRowForD2 ==
    /\ Len(log) = 2
    /\ \A i \in 1..2 : log[i].owner = Some("alice")
    /\ Len(sheet) = 1
    /\ sheet[1].forum = 1 /\ sheet[1].doc = "2"
    /\ sheet[1].FileType = Token(<<"Adobe PDF">>)

\* C17 as stated: with F1 marked and no document marked, D1 and D2 are owned
\* by 'alice' and exactly one row is written, for D2, with File Type
\* 'Adobe PDF'.
C17_ForumMarkOnly == EndToEnd(None) => OneRowForD2

\* C17: with F1 marked and D1 carrying the owner mark 'alice', D1 and D2 are
\* owned by 'alice' and exactly one row is written, for D2, with File Type
\* 'Adobe PDF'; D1 gets no row.
C17_MarkedTopDocument == EndToEnd(Some("alice")) => OneRowForD2

\* The scenario has run, D1 being a titled folder.
C17_Witness ==
    /\ EndToEnd(Some("alice"))
    /\ forums[1].docshare.attrs[1].TITLE = Token(<<"Draft">>)
    /\ Len(sheet) = 1

\* C18: while writeMigrationXLSX runs, rows are only appended to the sheet;
\* the step that makes 'STOP!' the active owner appends none, and once 'STOP!'
\* is the active owner no further document is visited and the sheet goes to
\* the file as it is.
C18_EarlyStop ==
    [][phase = "write" =>
         /\ Len(sheet') >= Len(sheet)
         /\ SubSeq(sheet', 1, Len(sheet)) = sheet
         /\ (docOwner' = Some(StopOwner) => sheet' = sheet)
         /\ (docOwner = Some(StopOwner) =>
               log' = log /\ sheet' = sheet /\ phase' = "written")]_vars

\* The walk stopped at 'STOP!' after a row was written, with a document of the
\* docshare not visited and a later forum not walked.
C18_Witness ==
    /\ phase = "written"
    /\ docOwner = Some(StopOwner)
    /\ Len(sheet) >= 1
    /\ Len(log) < lastId
    /\ ForumsAfter(forumNo) # {}

\* A folder frame of the docshare names a document that is not in the name
\* index.
FrameTargetMissing ==
    \E k \in Keys(store) :
        LET d == attrs[store[k].attrs]
        IN /\ "FOLDERFRAME" \in DOMAIN d
           /\ ~IsNone(d.FOLDERFRAME)
           /\ Find(nameIndex, Val(d.FOLDERFRAME)) = 0

\* C19: a folder frame whose target is not among the loaded documents does
\* not make __loadDocshare raise.
C19_LookupMissNotFatal ==
    FrameTargetMissing => ~(phase = "raised" /\ exc = "TypeError")

\* C20: while and after a docshare is loaded from rows ordered by id, it holds
\* one node per distinct id of the rows read, under unique names; while the
\* rows are read each node carries the attrs and the parent of the first row
\* with its id.
C20_OneNodePerId ==
    phase \in {"rows", "marks"} =>
        LET ids == {rows[i].DOCID : i \in 1..Len(rows)}
        IN /\ Cardinality(Keys(store)) = Cardinality(ids)
           /\ UniqueNames(store)
           /\ \A id \in ids : \E k \in Keys(store) : store[k].name = id
           /\ phase = "rows" =>
                \A k \in Keys(store) :
                    /\ attrs[store[k].attrs] = RowAttrs(FirstRowOf(store[k].name)).v
                    /\ store[k].pname = Str(FirstRowOf(store[k].name).PARENTID)

\* Two consecutive rows with the same id and different columns were read.
C20_Witness ==
    /\ phase = "rows"
    /\ \E i \in 1..(Len(rows) - 1) :
         rows[i].DOCID = rows[i + 1].DOCID /\ rows[i] # rows[i + 1]
    /\ lastId < Len(rows)

\* The nodes inserted with the int key p as their parent argument.
UnderKey(p) == {k \in Keys(store) : store[k].pname = Decimal(p)}

\* C21: a node inserted with the int key of an earlier insert as its parent
\* argument is, after index(), a child of that earlier node: its parent is
\* that key and it is in that node's kids.
C21_KeyParentIsChild ==
    (~dirty /\ exc = "") =>
        \A p \in Keys(store) : \A k \in UnderKey(p) :
            /\ store[k].parent = Some(p)
            /\ InSeq(k, store[p].kids)

\* The tokens of the logo field, the poster's display name in dotted form
\* (position 0) and the lower-cased domain of the e-mail address (position 5).
LogoTokens == splitOnBracketsOrSpace(Some(input))
LogoHasDomain ==
    /\ call.op = "parseLogo"
    /\ ~LogoTokens.raised
    /\ Len(LogoTokens.v) >= 6
    /\ LogoTokens.v[1].t = "str"
    /\ LogoTokens.v[6].t = "str"
    /\ Len(SplitOn(LogoTokens.v[6].l, {"@"}, <<>>)) >= 2
LogoPoster == JoinDots(Words(LogoTokens.v[1].l))
LogoDomain ==
    LET d == SplitOn(LogoTokens.v[6].l, {"@"}, <<>>)[2]
    IN [i \in 1..Len(d) |-> Lower(d[i])]
\* The agency the first matching domain rule gives, in the order NRAO, ESO,
\* NAOJ, JAO.
FirstDomainRule(domain) ==
    IF NraoRule(domain) THEN Token(<<"NRAO">>)
    ELSE IF EsoRule(domain) THEN Token(<<"ESO">>)
    ELSE IF NaojRule(domain) THEN Token(<<"NAOJ">>)
    ELSE IF JaoRule(domain) THEN Token(<<"JAO">>)
    ELSE Token(<<"Not ALMA DOC<">> \o domain \o <<">">>)

\* C22 as stated: for the poster 'ral' and an e-mail address with a domain the
\* issuing agency is 'ESO' whatever the domain; for every other poster the
\* first matching rule in the order NRAO, ESO, NAOJ, JAO decides, and
\* 'Not ALMA DOC<domain>' is assigned when no rule matches.
C22_RalAlwaysESO ==
    LogoHasDomain =>
        /\ dpc = "done"
        /\ attrsOut.ISS_AGENCY = IF IsRal(LogoPoster) THEN Token(<<"ESO">>)
                                 ELSE FirstDomainRule(LogoDomain)

\* C22 amended: the NRAO rule comes before the exact-name exception.  A domain
\* matching the NRAO rule gives 'NRAO' for every poster, 'ral' included; for
\* the poster 'ral' every other domain gives 'ESO'; for every other poster the
\* first matching rule in the order NRAO, ESO, NAOJ, JAO decides, and
\* 'Not ALMA DOC<domain>' is assigned when no rule matches.
C22_NraoBeforeRal ==
    LogoHasDomain =>
        /\ dpc = "done"
        /\ NraoRule(LogoDomain) => attrsOut.ISS_AGENCY = Token(<<"NRAO">>)
        /\ (IsRal(LogoPoster) /\ ~NraoRule(LogoDomain)) =>
              attrsOut.ISS_AGENCY = Token(<<"ESO">>)
        /\ ~IsRal(LogoPoster) => attrsOut.ISS_AGENCY = FirstDomainRule(LogoDomain)

\* C22 witness: parseLogo has decoded a logo field of the poster 'ral' whose
\* e-mail domain matches the NRAO rule.
C22_Witness ==
    /\ LogoHasDomain
    /\ dpc = "done"
    /\ IsRal(LogoPoster)
    /\ NraoRule(LogoDomain)
    /\ attrsOut.ISS_AGENCY = Token(<<"NRAO">>)

\* C23: on the MySQL branch and on the Oracle branch alike, loadAllForums ends
\* without raising, having made one insert per row the query returned and
\* then index().
C23_LoadsOnEitherDriver ==
    (lpc \in {"done", "raised"}) =>
        /\ exc = ""
        /\ lastId = Len(queryResult)
        /\ ~dirty

\* The users of the (key, value) pairs of items from the i-th entry on whose
\* key starts with 'a.To', joined by blanks: the second element of a value
\* that is a nested group, a value that is a plain string as a whole.
RECURSIVE ReleaseUsers(_, _)
ReleaseUsers(items, i) ==
    IF i + 1 > Len(items) THEN <<>>
    ELSE IF items[i].t = "str" /\ IsReleaseKey(items[i].l)
    THEN <<IF items[i + 1].t = "list" THEN StrOf(items[i + 1].l[2]) ELSE items[i + 1].l>>
         \o ReleaseUsers(items, i + 2)
    ELSE ReleaseUsers(items, i + 2)
RECURSIVE JoinBlanks(_)
JoinBlanks(ws) ==
    IF ws = <<>> THEN <<>>
    ELSE IF Len(ws) = 1 THEN ws[1]
    ELSE ws[1] \o <<" ">> \o JoinBlanks(Tail(ws))

\* C24: parseWorkflow sets RELEASED_BY to the space-joined users of all
\* (key, value) pairs whose key starts with 'a.To', in order: the second
\* element of the value when the value is a nested group, the whole value when
\* it is a plain string.
C24_ReleasedByUsers ==
    (call.op = "parseWorkflow" /\ dpc = "done") =>
        attrsOut.RELEASED_BY =
            Token(JoinBlanks(ReleaseUsers(splitOnBracketsOrSpace(Some(input)).v, 1)))

\* The folder-frame nodes of the docshare that name document t as their
\* FOLDERFRAME.
FramesOf(t) ==
    {f \in Keys(store) : attrs[store[f].attrs].FOLDERFRAME = Some(store[t].name)}

\* C25: once __loadDocshare has completed, every document that folder-frame
\* nodes name as their FOLDERFRAME is a child of the last of them in insertion
\* order and of no other node, has an empty TITLE and has that node's id as
\* PARENTID; the docshare is indexed after the last adopt and stays indexed
\* while it is traversed.
C25_FrameTargetsAdopted ==
    /\ (phase \in {"marks", "write", "written"}) => ~dirty
    /\ (phase = "marks") =>
          \A t \in Keys(store) :
             FramesOf(t) # {} =>
                LET f == Max(FramesOf(t))
                IN /\ store[t].parent = Some(f)
                   /\ Cardinality({i \in 1..Len(store[f].kids) : store[f].kids[i] = t}) = 1
                   /\ \A k \in DOMAIN store \ {f} : ~InSeq(t, store[k].kids)
                   /\ attrs[store[t].attrs].TITLE = EmptyStr
                   /\ attrs[store[t].attrs].PARENTID = PyStr(store[f].name)

\* C25 witness: a loaded docshare in which two folder frames name the same
\* document, inserted between them under another parent and with a title.
C25_Witness ==
    /\ phase = "marks"
    /\ \E t \in Keys(store) :
          /\ Cardinality(FramesOf(t)) = 2
          /\ \E f \in FramesOf(t) : f < t
          /\ store[t].parent = Some(Max(FramesOf(t)))
          /\ Max(FramesOf(t)) > t
          /\ rows[t].PARENTID = PyStr("1")
          /\ ~IsNone(rows[t].TITLE)

\* C26: a depthFirst from the synthetic root of an indexed tree, after any
\* inserts and adopts, yields every inserted node exactly once: the nodes
\* insertionOrder yields.
C26_RootTraversalComplete ==
    (call.op = "depthFirst" /\ call.key = 0) =>
        /\ ~Failed(events)
        /\ \A k \in Keys(store) : InSeq(k, InsertionOrder(store))
        /\ \A i \in 1..Len(InsertionOrder(store)) :
              Cardinality(YieldAt(InsertionOrder(store)[i])) = 1

\* The nodes whose OWNER a step changes.
OwnerChanged ==
    {k \in Keys(store) : OwnerOf(store, attrs', k) # OwnerOf(store, attrs, k)}

\* C27: a step that sets the OWNER of a node leaves the attributes of every
\* other node as they were, the nodes inserted without an attrs argument
\* included.
C27_AttrsIndependent ==
    [][(store' = store /\ \E k \in OwnerChanged : ~IsNone(OwnerOf(store, attrs', k)))
          => Cardinality(OwnerChanged) = 1]_vars

\* The walk of the docshare of the forum at hand is over: the generator is
\* exhausted, or the loop was left at 'STOP!'.
WalkOver == phase = "write" /\ forumNo > 0 /\ pos > Len(events)

\* The walk of a forum's docshare is about to begin.
WalkBegins == phase = "write" /\ forumNo > 0 /\ pos = 1

\* C28: in writeMigrationXLSX the active document owner is absent whenever the
\* walk of one forum's docshare has run to completion (not left at 'STOP!'),
\* and so it is absent when the walk of any forum's docshare begins: a mark
\* found in one docshare is never the owner in force in a later one.
C28_OwnerEndsWithWalk ==
    /\ (WalkOver /\ ~Stops(docOwner)) => IsNone(docOwner)
    /\ WalkBegins => IsNone(docOwner)
    /\ \A i \in 1..Len(log) :
          ~IsNone(log[i].owner) =>
             \E j \in 1..i : /\ log[j].forum = log[i].forum
                             /\ forums[log[j].forum].docshare.attrs[
                                   forums[log[j].forum].docshare.store[log[j].key].attrs].OWNER
                                = log[i].owner

\* The walk of a second forum's docshare is over, with documents handled
\* under no owner, after the walk of the first forum's docshare in which an
\* owner was in force.
C28_Witness ==
    /\ WalkOver
    /\ forumNo > 1
    /\ \E i \in 1..Len(log) : log[i].forum = 1 /\ ~IsNone(log[i].owner)
    /\ \E j \in 1..Len(log) : log[j].forum = forumNo /\ IsNone(log[j].owner)
    /\ \E j \in 1..Len(log) : log[j].forum = forumNo /\ ~IsNone(log[j].owner)

====
